---- MODULE Spec2Model ----
(***************************************************************************)
(* The in-call conversation orchestration of the AI receptionist backend:  *)
(* the three Twilio webhook handlers of api/webhooks.py, the in-memory     *)
(* registry active_conversations, the calls table they write, the TwiML    *)
(* built by services/telephony.py and the model client of                  *)
(* services/ai_handler.py.                                                 *)
(*                                                                         *)
(* Under Spec every webhook handler runs from its first line to its return *)
(* (or to the exception that ends it) as one step: events are delivered    *)
(* one after the other.  Every awaited database operation and every call   *)
(* of the language model may fail; which one fails is an input of the      *)
(* step.  Spec follows two calls through few outcomes of each request.     *)
(* SpecOneCall follows one call identifier through every outcome: every    *)
(* business, every answer of the model, every provider status, and the     *)
(* deletion of a business (api/businesses.py) while its call is live.      *)
(* Under SpecLoop the handlers of two calls overlap as the event loop of    *)
(* the one server process runs them: a handler gives up the thread at each  *)
(* awaited database operation and keeps it during a call of the model,      *)
(* which is a blocking call (ai_handler.py:156, 252, 279).                  *)
(***************************************************************************)
EXTENDS Integers, Sequences, FiniteSets, TLC

VARIABLES
    active_conversations,  \* webhooks.py:20, dict CallSid -> conversation state
    calls,                 \* the committed rows of table "calls"; row i has id i
    businesses,            \* the ids of the rows that table "businesses" holds
    api_key_set,           \* settings.OPENAI_API_KEY is set (fixed at start-up)
    last,                  \* the webhook invocation that ran last, and how it ended
    tasks,                 \* SpecLoop: the handler invocations that have begun and
                           \* not ended, each with the await it is suspended at
    blocked                \* SpecLoop: the task that holds the thread of the event
                           \* loop inside a blocking call of the model, or 0

vars == <<active_conversations, calls, businesses, api_key_set, last, tasks, blocked>>

-----------------------------------------------------------------------------
(* Bounds of the model *)

\* rows the calls table may hold: call-start is not delivered beyond it
MaxCalls == 2
\* speech turns with text that one conversation state takes
MaxTurns == 1
\* rows the calls table may hold under SpecOneCall
MaxRows == 1

-----------------------------------------------------------------------------
(* Python values *)

\* Python's None, kept apart from every text the program handles
NoneVal == "<None>"

\* an empty dict
EmptyDict == [k \in {} |-> ""]

\* str(x) as an f-string renders it
Str(x) == IF x = NoneVal THEN "None" ELSE x

\* a truth test that takes only None for false
Truthy_only_none(s) == s # NoneVal

\* truth value of an Optional[str]
Truthy(s) == s # NoneVal /\ s # ""

\* d.get(k, default)
Get(d, k, default) == IF k \in DOMAIN d THEN d[k] ELSE default

\* d.update(e): the keys of e are added or overwritten, the others kept
Update(d, e) == e @@ d

\* d[k] = v
SetItem(d, k, v) == [x \in DOMAIN d \cup {k} |-> IF x = k THEN v ELSE d[x]]

\* a del that is left out
DelItem_skipped(d, k) == d

\* a del that empties the dict
DelItem_clear(d, k) == [x \in {} |-> d[x]]

\* del d[k], for a key that is present
DelItem(d, k) == [x \in DOMAIN d \ {k} |-> d[x]]

\* s.startswith(p)
StartsWith(s, p) == Len(s) >= Len(p) /\ SubSeq(s, 1, Len(p)) = p

UpperCase == "ABCDEFGHIJKLMNOPQRSTUVWXYZ"
LowerCase == "abcdefghijklmnopqrstuvwxyz"
Whitespace == {" ", "\n", "\t", "\r"}

\* c.lower() of one character
lower_char(c) ==
    IF \E i \in 1..26 : SubSeq(UpperCase, i, i) = c
    THEN LET i == CHOOSE j \in 1..26 : SubSeq(UpperCase, j, j) = c
         IN  SubSeq(LowerCase, i, i)
    ELSE c

RECURSIVE lower(_)
\* text.lower()
lower(text) ==
    IF text = "" THEN ""
    ELSE lower_char(SubSeq(text, 1, 1)) \o lower(SubSeq(text, 2, Len(text)))

RECURSIVE lstrip(_)
\* text.lstrip()
lstrip(text) ==
    IF text # "" /\ SubSeq(text, 1, 1) \in Whitespace
    THEN lstrip(SubSeq(text, 2, Len(text))) ELSE text

RECURSIVE rstrip(_)
\* text.rstrip()
rstrip(text) ==
    IF text # "" /\ SubSeq(text, Len(text), Len(text)) \in Whitespace
    THEN rstrip(SubSeq(text, 1, Len(text) - 1)) ELSE text

\* text.strip()
strip(text) == rstrip(lstrip(text))

RECURSIVE replace(_, _, _)
\* text.replace(old, new), for a non-empty old
replace(text, old, new) ==
    IF Len(text) < Len(old) THEN text
    ELSE IF StartsWith(text, old)
         THEN new \o replace(SubSeq(text, Len(old) + 1, Len(text)), old, new)
         ELSE SubSeq(text, 1, 1) \o replace(SubSeq(text, 2, Len(text)), old, new)

RECURSIVE Join(_, _)
\* sep.join(lines)
Join(sep, lines) ==
    IF lines = <<>> THEN ""
    ELSE IF Len(lines) = 1 THEN lines[1]
    ELSE lines[1] \o sep \o Join(sep, Tail(lines))

-----------------------------------------------------------------------------
(* Inputs of the webhooks *)

\* provider call identifiers (form field CallSid)
CallSids == {"CA1", "CA2"}

\* form field From of call-start
Froms == {"+15550777"}

\* form field To of call-start: the number of a business, and one of none
Tos == {"+15550001", "+15559999"}

\* form field To of call-start: the numbers of all businesses, and one of none
AllTos == {"+15550001", "+15550002", "+15550003", "+15559999"}

\* form field SpeechResult of a speech turn
SpeechResults == {NoneVal, "", "hi"}

\* form fields CallStatus and CallDuration of a status event; CallDuration is
\* Optional[int]: the empty set is its absence
StatusEvents ==
    { [CallStatus |-> "completed", CallDuration |-> {42}],
      [CallStatus |-> "Busy",      CallDuration |-> {}] }

\* every provider status the map of webhooks.py:248-254 names, and three it
\* does not name: two that are not terminal and one unknown
AllStatusEvents ==
    StatusEvents \cup
    { [CallStatus |-> "no-answer",   CallDuration |-> {}],
      [CallStatus |-> "canceled",    CallDuration |-> {0}],
      [CallStatus |-> "failed",      CallDuration |-> {}],
      [CallStatus |-> "ringing",     CallDuration |-> {}],
      [CallStatus |-> "in-progress", CallDuration |-> {7}],
      [CallStatus |-> "suspended",   CallDuration |-> {42}] }

-----------------------------------------------------------------------------
(* The rows of tables businesses and prompts: the webhooks only read them *)

\* services is the JSON column of models/business.py:41, a list or null: the
\* empty set is null, which PUT /businesses/{id} with "services": null stores
\* (schemas/business.py:66, api/businesses.py:77-79)
Businesses ==
    << [id |-> 1, name |-> "Bright Dental", twilio_phone_number |-> "+15550001",
        phone_number |-> "+15550100", ai_voice |-> "nova",
        greeting_message |-> "Hello!", services |-> {<<"Cleaning">>}],
       [id |-> 2, name |-> "Corner Salon", twilio_phone_number |-> "+15550002",
        phone_number |-> NoneVal, ai_voice |-> "alloy2",
        greeting_message |-> "Thank you for calling. How may I help you today?",
        services |-> {<< >>}],
       [id |-> 3, name |-> "Elm Clinic", twilio_phone_number |-> "+15550003",
        phone_number |-> "+15550300", ai_voice |-> "echo",
        greeting_message |-> "Elm Clinic.", services |-> {}] >>

Prompts ==
    << [id |-> 1, business_id |-> 1, priority |-> 5, is_active |-> TRUE],
       [id |-> 2, business_id |-> 1, priority |-> 9, is_active |-> TRUE],
       [id |-> 3, business_id |-> 1, priority |-> 7, is_active |-> FALSE],
       [id |-> 4, business_id |-> 1, priority |-> 1, is_active |-> TRUE],
       [id |-> 5, business_id |-> 2, priority |-> 3, is_active |-> TRUE],
       [id |-> 6, business_id |-> 2, priority |-> 3, is_active |-> TRUE],
       [id |-> 7, business_id |-> 2, priority |-> 8, is_active |-> TRUE] >>

-----------------------------------------------------------------------------
(* services/telephony.py: the TwiML documents, as the sequence of their verbs *)

DefaultVoice == "Polly.Joanna"
HandleInputUrl == "/api/webhooks/twilio/handle-input"
VoiceUrl == "/api/webhooks/twilio/voice"

Say(message, voice) == [verb |-> "Say", text |-> message, voice |-> voice]
Gather(message, voice) ==
    [verb |-> "Gather", input |-> "speech", action |-> HandleInputUrl,
     say |-> Say(message, voice)]
Hangup == [verb |-> "Hangup"]

\* a redirect that goes to the speech-turn entry point, whatever it is given
Redirect_to_handle_input(url) == [verb |-> "Redirect", url |-> HandleInputUrl]

Redirect(url) == [verb |-> "Redirect", url |-> url]
Dial(number) == [verb |-> "Dial", number |-> number]

create_greeting_response(greeting_message, voice) ==
    << Gather(greeting_message, voice),
       Say("I didn't catch that. How may I help you?", voice),
       Redirect(VoiceUrl) >>

\* a response that always ends the call
create_response_always_hangup(message, voice, gather_input, end_call) ==
    << Say(message, voice), Hangup >>

\* a response in which the gather directive takes precedence over the hang-up
create_response_gather_first(message, voice, gather_input, end_call) ==
    IF gather_input
    THEN << Gather(message, voice), Say("Are you still there?", voice),
            Redirect(VoiceUrl) >>
    ELSE IF end_call THEN << Say(message, voice), Hangup >>
    ELSE << Say(message, voice) >>

\* a response in which each flag adds its verbs, whatever the other flag is
create_response_flags_apart(message, voice, gather_input, end_call) ==
    (IF gather_input
     THEN << Gather(message, voice), Say("Are you still there?", voice),
             Redirect(VoiceUrl) >>
     ELSE << Say(message, voice) >>)
        \o (IF end_call THEN << Hangup >> ELSE << >>)

create_response(message, voice, gather_input, end_call) ==
    IF end_call THEN << Say(message, voice), Hangup >>
    ELSE IF gather_input
         THEN << Gather(message, voice),
                 Say("Are you still there?", voice),
                 Redirect(VoiceUrl) >>
         ELSE << Say(message, voice) >>

\* a transfer without the spoken preamble
transfer_call_silent(phone_number, message, voice) == << Dial(phone_number) >>

transfer_call(phone_number, message, voice) ==
    (IF Truthy(message) THEN << Say(message, voice) >> ELSE << >>)
        \o << Dial(phone_number) >>

\* the directives a document carries
HasVerb(doc, v) == \E i \in 1..Len(doc) : doc[i].verb = v

-----------------------------------------------------------------------------
(* services/ai_handler.py *)

NotConfiguredReply ==
    "I apologize, but I'm having technical difficulties. Please hold while I transfer you to our staff."
FailureReply ==
    "I apologize, but I'm experiencing some issues. Let me transfer you to our staff."

\* the texts of function_call.arguments the model sends
ArgsJane ==
    "{\"patient_name\": \"Jane\", \"preferred_date\": \"2024-06-01\", \"preferred_time\": \"10:00\"}"
ArgsBob == "{\"patient_name\": \"Bob\", \"phone_number\": \"555\"}"
ArgsEmpty == "{}"
ArgsMalformed == "{\"patient_name\": "

\* json.loads succeeds on the text
JsonValid(text) == text \in {ArgsJane, ArgsBob, ArgsEmpty}

\* json.loads(text), for a text it parses
json_loads(text) ==
    CASE text = ArgsJane ->
           [patient_name |-> "Jane", preferred_date |-> "2024-06-01",
            preferred_time |-> "10:00"]
      [] text = ArgsBob -> [patient_name |-> "Bob", phone_number |-> "555"]
      [] OTHER -> EmptyDict

\* What one chat-completion request does: it raises (raises is the text of
\* the exception), or it answers with message.content and at most one
\* message.function_call.
ChatReplies ==
    { [raises |-> "Connection error.", content |-> NoneVal, function_call |-> {}],
      [raises |-> NoneVal, content |-> "Sure, what day works for you?",
       function_call |-> {}],
      [raises |-> NoneVal, content |-> NoneVal,
       function_call |-> {[name |-> "schedule_appointment", arguments |-> ArgsJane]}],
      [raises |-> NoneVal, content |-> NoneVal,
       function_call |-> {[name |-> "transfer_call", arguments |-> ArgsEmpty]}],
      [raises |-> NoneVal, content |-> NoneVal,
       function_call |-> {[name |-> "end_call", arguments |-> ArgsEmpty]}] }

\* every outcome of a chat-completion request: also arguments that json.loads
\* rejects, a function the request did not offer, a function call that comes
\* with a text, and an empty text
AllChatReplies ==
    ChatReplies \cup
    { [raises |-> "Incorrect API key provided.", content |-> NoneVal,
       function_call |-> {}],
      [raises |-> NoneVal, content |-> NoneVal,
       function_call |-> {[name |-> "schedule_appointment",
                           arguments |-> ArgsMalformed]}],
      [raises |-> NoneVal, content |-> NoneVal,
       function_call |-> {[name |-> "take_message", arguments |-> ArgsEmpty]}],
      [raises |-> NoneVal, content |-> "One moment, I will put you through.",
       function_call |-> {[name |-> "transfer_call", arguments |-> ArgsEmpty]}],
      [raises |-> NoneVal, content |-> "",
       function_call |-> {[name |-> "end_call", arguments |-> ArgsEmpty]}],
      [raises |-> NoneVal, content |-> "", function_call |-> {}] }

\* no chat-completion request is made
NoReply == [raises |-> NoneVal, content |-> NoneVal, function_call |-> {}]

AIConversationHandler(business_context) ==
    [business_context |-> business_context,
     client |-> api_key_set,
     conversation_history |-> << >>]

add_prompts_to_context(handler, prompts) ==
    IF prompts = << >> THEN handler
    ELSE [handler EXCEPT !.business_context =
              SetItem(@, "custom_prompts", prompts)]

_get_action_response(action, data) ==
    CASE action = "schedule_appointment" ->
           "I've scheduled your appointment for "
             \o Str(Get(data, "preferred_date", NoneVal)) \o " at "
             \o Str(Get(data, "preferred_time", NoneVal))
             \o ". We'll see you then, "
             \o Str(Get(data, "patient_name", NoneVal)) \o "!"
      [] action = "transfer_call" ->
           "I'll transfer you to one of our staff members now. Please hold."
      [] action = "end_call" -> "Thank you for calling! Have a great day."
      [] OTHER -> ""

\* build_system_prompt(): the text of the prompt, or the exception that
\* ', '.join(business.get('services', [...])) raises when the value stored
\* under 'services' is None (the key is always there, webhooks.py:72)
build_system_prompt(handler) ==
    LET business == handler.business_context
        services == Get(business, "services", {<<"General services">>})
    IN  IF services = {}
        THEN [raises |-> "TypeError: can only join an iterable", text |-> NoneVal]
        ELSE [raises |-> NoneVal,
              text |-> "You are an AI receptionist for "
                          \o Get(business, "name", "our office")
                          \o ". SERVICES OFFERED: "
                          \o Join(", ", CHOOSE l \in services : TRUE)]

\* The try block of process_input (ai_handler.py:155-234), entered with the
\* user message in the history (asked) and left with what the
\* chat-completion request does (reply): the handler afterwards and the
\* returned dict.
request_outcome(asked, reply) ==
    LET fc == CHOOSE f \in reply.function_call : TRUE
    IN  IF reply.raises # NoneVal
        THEN [ai_handler |-> asked,
              result |-> [response |-> FailureReply, action |-> "transfer",
                          error |-> reply.raises],
              raises |-> NoneVal,
              requested |-> TRUE]
        ELSE IF reply.function_call # {} /\ ~JsonValid(fc.arguments)
        THEN [ai_handler |-> asked,
              result |-> [response |-> FailureReply, action |-> "transfer",
                          error |-> "Expecting value"],
              raises |-> NoneVal,
              requested |-> TRUE]
        ELSE
          LET result ==
                IF reply.function_call # {}
                THEN [response |->
                          IF Truthy(reply.content) THEN reply.content
                          ELSE _get_action_response(fc.name, json_loads(fc.arguments)),
                      action |-> fc.name,
                      action_data |-> json_loads(fc.arguments)]
                ELSE [response |-> reply.content, action |-> NoneVal,
                      action_data |-> NoneVal]
          IN  [ai_handler |-> [asked EXCEPT !.conversation_history =
                                  Append(@, [role |-> "assistant",
                                             content |-> result.response])],
               result |-> result,
               raises |-> NoneVal,
               requested |-> TRUE]

\* process_input(user_input, collected_info) on handler, the chat-completion
\* request doing `reply`: the handler afterwards, the returned dict (or the
\* exception that leaves process_input), and whether the request was made.
process_input(handler, user_input, collected_info, reply) ==
    IF ~handler.client
    THEN [ai_handler |-> handler,
          result |-> [response |-> NotConfiguredReply, action |-> "transfer",
                      error |-> "OpenAI not configured"],
          raises |-> NoneVal,
          requested |-> FALSE]
    ELSE IF build_system_prompt(handler).raises # NoneVal
    THEN [ai_handler |-> [handler EXCEPT !.conversation_history =
                             Append(@, [role |-> "user", content |-> user_input])],
          result |-> EmptyDict,
          raises |-> build_system_prompt(handler).raises,
          requested |-> FALSE]
    ELSE request_outcome(
             [handler EXCEPT !.conversation_history =
                 Append(@, [role |-> "user", content |-> user_input])],
             reply)

\* What the summary request and the sentiment request do: raise (NoneVal
\* stands for the exception) or answer with message.content.  NotAsked: the
\* request is not made.
NotAsked == "<not asked>"
SummaryReplies == {NoneVal, " The caller asked for an appointment. "}
SentimentReplies == {NoneVal, " Positive\n"}

\* every answer of the two requests: also an empty text, a text of blanks, a
\* word that is none of the three, and one of the three in capitals
AllSummaryReplies == SummaryReplies \cup {"", "  \n"}
AllSentimentReplies == SentimentReplies \cup {"mixed", "NEGATIVE", "neutral.", ""}

\* a sentiment that hands on whatever word the model answered
analyze_sentiment_unfiltered(handler, text, reply) ==
    IF ~handler.client THEN "neutral"
    ELSE IF reply = NoneVal THEN "neutral"
    ELSE lower(strip(reply))

analyze_sentiment(handler, text, reply) ==
    IF ~handler.client THEN "neutral"
    ELSE IF reply = NoneVal THEN "neutral"
    ELSE IF lower(strip(reply)) \in {"positive", "neutral", "negative"}
         THEN lower(strip(reply))
         ELSE "neutral"

\* a summary that gives up also where no request is made
summarize_call_unable(handler, reply) == "Unable to generate summary."

summarize_call(handler, reply) ==
    IF ~handler.client \/ handler.conversation_history = << >>
    THEN "No conversation to summarize."
    ELSE IF reply = NoneVal THEN "Unable to generate summary."
    ELSE strip(reply)

-----------------------------------------------------------------------------
(* The database session of one request (database.py, models/) *)

Range(f) == {f[i] : i \in DOMAIN f}

\* the select without its where clause, cut to the first row
select_business_first(To) == {Businesses[1]}

\* select(Business).where(Business.twilio_phone_number == To): the rows found
select_business_by_number(To) ==
    {b \in Range(Businesses) : b.id \in businesses /\ b.twilio_phone_number = To}

\* select(Business).where(Business.id == business_id): the rows found
select_business_by_id(business_id) ==
    {b \in Range(Businesses) : b.id \in businesses /\ b.id = business_id}

\* The orders in which ORDER BY priority DESC may return the rows of a set:
\* the statement has no second key, so rows of equal priority come in an
\* order it does not fix.
order_by_priority_desc(rows) ==
    {s \in [1..Cardinality(rows) -> rows] :
        /\ \A i, j \in DOMAIN s : i < j => s[i] # s[j]
        /\ \A i, j \in DOMAIN s : i < j => s[i].priority >= s[j].priority}

\* select(Prompt).where(business_id == .., is_active == True)
\*     .order_by(Prompt.priority.desc()): the results the statement may give
select_active_prompts(business_id) ==
    order_by_priority_desc(
        {p \in Range(Prompts) : p.business_id = business_id /\ p.is_active})

\* the results of the statement for each business: no handler of the model
\* changes table prompts
active_prompts ==
    [business_id \in {Businesses[i].id : i \in DOMAIN Businesses} |->
        select_active_prompts(business_id)]

\* a new row of table calls with the column defaults of models/call.py
Call(id, business_id, twilio_call_sid, caller_number, called_number, status) ==
    [id |-> id, business_id |-> business_id, twilio_call_sid |-> twilio_call_sid,
     caller_number |-> caller_number, called_number |-> called_number,
     status |-> status, duration_seconds |-> 0, transcript |-> NoneVal,
     call_summary |-> NoneVal, sentiment |-> NoneVal,
     collected_info |-> EmptyDict, action_taken |-> NoneVal,
     action_details |-> EmptyDict]

\* select(Call).where(Call.id == call_id): the places of the rows found
select_call_by_id(call_id) == {i \in DOMAIN calls : calls[i].id = call_id}

\* the id an INSERT gives a row of calls: the column is an INTEGER PRIMARY KEY
\* (models/call.py:26) of SQLite (config.py:12), one more than the largest id
\* the table holds; calls keeps its rows in the order of their ids
NextCallId == IF calls = << >> THEN 1 ELSE calls[Len(calls)].id + 1

-----------------------------------------------------------------------------
(* How an invocation of a webhook ended: what `last` records *)

\* The record of an invocation: the webhook (kind) and its CallSid, the form
\* input it branched on, whether active_conversations held the CallSid when it
\* began, whether an exception left the handler, the body it returned, the
\* dict process_input gave it (for a status event: what the two requests of
\* the handler did), whether a chat-completion request was made, what raised
\* the exception, and whether it is a status event that follows a status event
\* for the same CallSid that returned.
Ended(kind, CallSid, input, had_conversation, raised, cause, body, ai, requested) ==
    [kind |-> kind, CallSid |-> CallSid, input |-> input,
     had_conversation |-> had_conversation, raised |-> raised, cause |-> cause,
     body |-> body, ai |-> ai, requested |-> requested,
     repeated |-> /\ kind = "status"
                  /\ last.kind = "status" /\ last.CallSid = CallSid
                  /\ ~last.raised]

\* the handler returned a document or a JSON body
Returned(kind, CallSid, input, had_conversation, body, ai, requested) ==
    Ended(kind, CallSid, input, had_conversation, FALSE, "none", body, ai, requested)

\* an exception of an awaited database operation left the handler: the session
\* is rolled back (database.py:36-38) and the provider gets an error status
\* instead of a body
Raised(kind, CallSid, input, had_conversation, ai, requested) ==
    Ended(kind, CallSid, input, had_conversation, TRUE, "database", << >>, ai, requested)

\* an exception of process_input left the handler
RaisedByModel(kind, CallSid, input, had_conversation, ai, requested) ==
    Ended(kind, CallSid, input, had_conversation, TRUE, "model", << >>, ai, requested)

NoAi == EmptyDict

Init ==
    /\ active_conversations = EmptyDict
    /\ calls = << >>
    /\ businesses = {Businesses[i].id : i \in DOMAIN Businesses}
    /\ api_key_set \in BOOLEAN
    /\ tasks = << >>
    /\ blocked = 0
    /\ last = [kind |-> "none", CallSid |-> NoneVal, input |-> NoneVal,
               had_conversation |-> FALSE, raised |-> FALSE, cause |-> "none",
               body |-> << >>,
               ai |-> NoAi, requested |-> FALSE, repeated |-> FALSE]

-----------------------------------------------------------------------------
(* api/webhooks.py *)

NotConfiguredMessage ==
    "We're sorry, but this number is not configured. Please try again later."
DidntCatchMessage == "I'm sorry, I didn't catch that. Could you please repeat?"

polly_voice(ai_voice) ==
    CASE ai_voice = "alloy" -> "Polly.Joanna"
      [] ai_voice = "echo" -> "Polly.Matthew"
      [] ai_voice = "fable" -> "Polly.Amy"
      [] ai_voice = "onyx" -> "Polly.Brian"
      [] ai_voice = "nova" -> "Polly.Salli"
      [] ai_voice = "shimmer" -> "Polly.Kimberly"
      [] OTHER -> "Polly.Joanna"

\* a conversation state that takes the id of the business for the id of the row
NewConversation_business_as_call(ai_handler, call_id, business_id) ==
    [ai_handler |-> ai_handler, call_id |-> business_id, business_id |-> business_id,
     collected_info |-> EmptyDict, transcript |-> << >>]

\* the conversation state call-start stores (webhooks.py:99-105)
NewConversation(ai_handler, call_id, business_id) ==
    [ai_handler |-> ai_handler, call_id |-> call_id, business_id |-> business_id,
     collected_info |-> EmptyDict, transcript |-> << >>]

\* the awaited database operations of call-start (webhooks.py:34, 59, 60, 77)
VoiceFaults == {"none", "find_business", "commit", "refresh", "load_prompts"}

\* POST /twilio/voice.  fault: the awaited database operation that raises; it
\* is an input only of a run that reaches that operation.  Of the ten
\* profile fields of business_context the model keeps the two the requests
\* of this model depend on; no handler changes any of them.
handle_incoming_call(CallSid, From, To, fault) ==
    LET found == select_business_by_number(To)
        business == CHOOSE b \in found : TRUE
        had == CallSid \in DOMAIN active_conversations
        call == Call(NextCallId, business.id, CallSid, From, To, "IN_PROGRESS")
        ai_handler(prompts) ==
            add_prompts_to_context(
                AIConversationHandler([name |-> business.name,
                                       services |-> business.services]),
                [i \in DOMAIN prompts |-> prompts[i].id])
    IN
    /\ UNCHANGED <<api_key_set, businesses, tasks, blocked>>
    /\ IF fault = "find_business"
       THEN /\ last' = Raised("voice", CallSid, NoneVal, had, NoAi, FALSE)
            /\ UNCHANGED <<active_conversations, calls>>
       ELSE IF found = {}
       THEN /\ fault = "none"
            /\ last' = Returned("voice", CallSid, To, had,
                           create_response(NotConfiguredMessage, DefaultVoice,
                                           TRUE, TRUE),
                           NoAi, FALSE)
            /\ UNCHANGED <<active_conversations, calls>>
       ELSE /\ Len(calls) < MaxCalls
            /\ IF fault = "commit"
               THEN /\ last' = Raised("voice", CallSid, NoneVal, had, NoAi, FALSE)
                    /\ UNCHANGED <<active_conversations, calls>>
               ELSE /\ calls' = Append(calls, call)
                    /\ IF fault \in {"refresh", "load_prompts"}
                       THEN /\ last' = Raised("voice", CallSid, NoneVal, had, NoAi, FALSE)
                            /\ UNCHANGED active_conversations
                       ELSE /\ \E prompts \in active_prompts[business.id] :
                                  active_conversations' =
                                      SetItem(active_conversations, CallSid,
                                              NewConversation(ai_handler(prompts),
                                                              call.id, business.id))
                            /\ last' = Returned("voice", CallSid, To, had,
                                           create_greeting_response(
                                               business.greeting_message,
                                               polly_voice(business.ai_voice)),
                                           NoAi, FALSE)

IncomingCall ==
    \E CallSid \in CallSids, From \in Froms, To \in Tos, fault \in VoiceFaults :
        handle_incoming_call(CallSid, From, To, fault)

\* an update of the row that is never committed
UpdateCall_uncommitted(call_id, change) == calls

\* an update without its where clause: every row of calls is changed
UpdateCall_every_row(call_id, change) == [i \in DOMAIN calls |-> change[calls[i]]]

\* the row of `calls` with this id, changed by `change`, committed
UpdateCall(call_id, change) ==
    [i \in DOMAIN calls |-> IF calls[i].id = call_id THEN change[calls[i]] ELSE calls[i]]

\* the awaited database operations of a speech turn (webhooks.py:174, 182, 194)
InputFaults == {"none", "find_call", "commit", "find_business"}

\* POST /twilio/handle-input.  reply: what the chat-completion request does;
\* fault: the awaited database operation that raises.  An exception leaves the
\* handler after the appends of webhooks.py:154 and ai_handler.py:135, which
\* stay in the conversation state.
handle_speech_input(CallSid, SpeechResult, reply, fault) ==
    LET had == CallSid \in DOMAIN active_conversations
        conversation == active_conversations[CallSid]
        heard == Append(conversation.transcript, "Caller: " \o SpeechResult)
        p == process_input(conversation.ai_handler, SpeechResult,
                           conversation.collected_info, reply)
        response == p.result
        answered == [conversation EXCEPT
                        !.ai_handler = p.ai_handler,
                        !.transcript = Append(heard, "AI: " \o Str(response.response))]
        action == Get(response, "action", NoneVal)
        action_data == Get(response, "action_data", NoneVal)
        scheduled == [answered EXCEPT
                        !.collected_info =
                            IF DOMAIN action_data # {}
                            THEN Update(@, action_data) ELSE @]
        found == select_call_by_id(conversation.call_id)
        business == select_business_by_id(conversation.business_id)
        number == (CHOOSE b \in business : TRUE).phone_number
    IN
    /\ UNCHANGED <<api_key_set, businesses, tasks, blocked>>
    /\ IF ~had \/ ~Truthy(SpeechResult)
       THEN /\ fault = "none" /\ reply = NoReply
            /\ last' = Returned("input", CallSid, SpeechResult, had,
                           create_response(DidntCatchMessage, DefaultVoice,
                                           TRUE, FALSE),
                           NoAi, FALSE)
            /\ UNCHANGED <<active_conversations, calls>>
       ELSE
         /\ Len(conversation.transcript) < 2 * MaxTurns
         /\ p.requested <=> reply # NoReply
         /\ IF p.raises # NoneVal
            THEN /\ fault = "none"
                 /\ active_conversations' =
                        SetItem(active_conversations, CallSid,
                                [conversation EXCEPT !.ai_handler = p.ai_handler,
                                                     !.transcript = heard])
                 /\ UNCHANGED calls
                 /\ last' = RaisedByModel("input", CallSid, SpeechResult, had,
                                          NoAi, p.requested)
            ELSE IF action = "schedule_appointment"
            THEN /\ fault \in {"none", "find_call", "commit"}
                 /\ fault = "commit" => found # {}
                 /\ active_conversations' =
                        SetItem(active_conversations, CallSid, scheduled)
                 /\ IF fault \in {"find_call", "commit"}
                    THEN /\ last' = Raised("input", CallSid, SpeechResult, had,
                                           response, p.requested)
                         /\ UNCHANGED calls
                    ELSE /\ calls' =
                              UpdateCall(conversation.call_id,
                                  [c \in Range(calls) |->
                                      [c EXCEPT
                                         !.collected_info = scheduled.collected_info,
                                         !.action_taken = "appointment_scheduled",
                                         !.action_details =
                                             Get(response, "action_data", EmptyDict)]])
                         /\ last' = Returned("input", CallSid, SpeechResult, had,
                                        create_response(response.response,
                                                        DefaultVoice, TRUE, TRUE),
                                        response, p.requested)
            ELSE
              /\ fault = "none" \/ (fault = "find_business" /\ action = "transfer_call")
              /\ active_conversations' =
                     SetItem(active_conversations, CallSid, answered)
              /\ UNCHANGED calls
              /\ IF fault = "find_business"
                 THEN last' = Raised("input", CallSid, SpeechResult, had,
                                     response, p.requested)
                 ELSE last' = Returned("input", CallSid, SpeechResult, had,
                         IF action = "transfer_call" /\ business # {} /\ Truthy(number)
                         THEN transfer_call(number, response.response, DefaultVoice)
                         ELSE IF action = "end_call"
                         THEN create_response(response.response, DefaultVoice,
                                              TRUE, TRUE)
                         ELSE create_response(response.response, DefaultVoice,
                                              TRUE, FALSE),
                         response, p.requested)

SpeechInput ==
    \E CallSid \in CallSids, SpeechResult \in SpeechResults,
       reply \in ChatReplies \cup {NoReply}, fault \in InputFaults :
        handle_speech_input(CallSid, SpeechResult, reply, fault)

\* a status map that compares the provider status as it came
status_map_case_sensitive(TwilioCallStatus) ==
    CASE TwilioCallStatus = "completed" -> "COMPLETED"
      [] TwilioCallStatus \in {"busy", "no-answer", "canceled"} -> "MISSED"
      [] TwilioCallStatus = "failed" -> "FAILED"
      [] OTHER -> "COMPLETED"

\* status_map.get(TwilioCallStatus.lower(), CallStatusEnum.COMPLETED)
status_map(TwilioCallStatus) ==
    LET key == lower(TwilioCallStatus)
    IN  CASE key = "completed" -> "COMPLETED"
          [] key = "busy" -> "MISSED"
          [] key = "no-answer" -> "MISSED"
          [] key = "canceled" -> "MISSED"
          [] key = "failed" -> "FAILED"
          [] OTHER -> "COMPLETED"

\* CallDuration or 0
DurationOrZero(CallDuration) ==
    IF CallDuration = {} THEN 0 ELSE CHOOSE d \in CallDuration : TRUE

\* a filter that keeps the lines that are "Caller:" and nothing more
caller_messages_exact(transcript) ==
    SelectSeq(transcript, LAMBDA line : line = "Caller:")

\* the lines of the transcript that start with "Caller:", every "Caller: " in
\* them removed
caller_messages(transcript) ==
    LET lines == SelectSeq(transcript, LAMBDA line : StartsWith(line, "Caller:"))
    IN  [i \in DOMAIN lines |-> replace(lines[i], "Caller: ", "")]

\* the awaited database operations of a status event (webhooks.py:241, 274)
StatusFaults == {"none", "find_call", "commit"}

\* an acknowledgement that reports an error
StatusOk_error == << [status |-> "error"] >>

\* the acknowledgement of a status event
StatusOk == << [status |-> "ok"] >>

\* POST /twilio/status.  summary_reply, sentiment_reply: what the two model
\* requests do; fault: the awaited database operation that raises.
handle_call_status(CallSid, TwilioCallStatus, CallDuration, fault, summary_reply, sentiment_reply) ==
    LET had == CallSid \in DOMAIN active_conversations
        conversation == active_conversations[CallSid]
        found == select_call_by_id(conversation.call_id)
        transcript == Join("\n", conversation.transcript)
        ai_handler == conversation.ai_handler
        messages == caller_messages(conversation.transcript)
        summary_requested ==
            ai_handler.client /\ ai_handler.conversation_history # << >>
        sentiment_requested ==
            ai_handler.client /\ Truthy(transcript) /\ messages # << >>
        finalized ==
            [c \in Range(calls) |->
                [c EXCEPT
                   !.status = status_map(TwilioCallStatus),
                   !.duration_seconds = DurationOrZero(CallDuration),
                   !.transcript = transcript,
                   !.call_summary = summarize_call(ai_handler, summary_reply),
                   !.sentiment =
                       IF Truthy(transcript) /\ messages # << >>
                       THEN analyze_sentiment(ai_handler, Join(" ", messages),
                                              sentiment_reply)
                       ELSE @]]
    IN
    /\ UNCHANGED <<api_key_set, businesses, tasks, blocked>>
    /\ IF ~had
       THEN /\ fault = "none" /\ summary_reply = NotAsked /\ sentiment_reply = NotAsked
            /\ last' = Returned("status", CallSid, NoneVal, had,
                                StatusOk, NoAi, FALSE)
            /\ UNCHANGED <<active_conversations, calls>>
       ELSE IF fault = "find_call"
       THEN /\ summary_reply = NotAsked /\ sentiment_reply = NotAsked
            /\ last' = Raised("status", CallSid, NoneVal, had, NoAi, FALSE)
            /\ UNCHANGED <<active_conversations, calls>>
       ELSE IF found = {}
       THEN /\ fault = "none" /\ summary_reply = NotAsked /\ sentiment_reply = NotAsked
            /\ active_conversations' = DelItem(active_conversations, CallSid)
            /\ last' = Returned("status", CallSid, NoneVal, had,
                                StatusOk, NoAi, FALSE)
            /\ UNCHANGED calls
       ELSE IF fault = "commit"
       THEN /\ summary_requested <=> summary_reply # NotAsked
            /\ sentiment_requested <=> sentiment_reply # NotAsked
            /\ last' = Raised("status", CallSid, NoneVal, had, NoAi, FALSE)
            /\ UNCHANGED <<active_conversations, calls>>
       ELSE /\ summary_requested <=> summary_reply # NotAsked
            /\ sentiment_requested <=> sentiment_reply # NotAsked
            /\ calls' = UpdateCall(conversation.call_id, finalized)
            /\ active_conversations' = DelItem(active_conversations, CallSid)
            /\ last' = Returned("status", CallSid, TwilioCallStatus, had,
                                StatusOk,
                                [summary |-> summary_reply,
                                 sentiment |-> sentiment_reply,
                                 duration |-> CallDuration],
                                summary_reply # NotAsked \/ sentiment_reply # NotAsked)

CallStatus ==
    \E CallSid \in CallSids, ev \in StatusEvents, fault \in StatusFaults,
       summary_reply \in SummaryReplies \cup {NotAsked},
       sentiment_reply \in SentimentReplies \cup {NotAsked} :
        handle_call_status(CallSid, ev.CallStatus, ev.CallDuration, fault,
                           summary_reply, sentiment_reply)

Next == IncomingCall \/ SpeechInput \/ CallStatus

Spec == Init /\ [][Next]_vars

-----------------------------------------------------------------------------
(* One call identifier through every outcome, and api/businesses.py *)

\* DELETE /businesses/{business_id} (api/businesses.py:89-107): 404 when no
\* row has the id; else the row goes, and with it its rows of calls, which
\* the relationship of models/business.py:59 cascades the delete to.
delete_business(business_id) ==
    /\ UNCHANGED <<active_conversations, api_key_set, tasks, blocked>>
    /\ IF business_id \notin businesses
       THEN /\ last' = Returned("delete", NoneVal, business_id, FALSE,
                                << [status_code |-> 404] >>, NoAi, FALSE)
            /\ UNCHANGED <<businesses, calls>>
       ELSE /\ businesses' = businesses \ {business_id}
            /\ calls' = SelectSeq(calls, LAMBDA c : c.business_id # business_id)
            /\ last' = Returned("delete", NoneVal, business_id, FALSE,
                                << [status_code |-> 204] >>, NoAi, FALSE)

\* the call identifier SpecOneCall follows
TheCallSid == "CA1"

\* call-start is delivered while the calls table holds fewer rows than this
CallStarts ==
    /\ Len(calls) < MaxRows
    /\ \E From \in Froms, To \in AllTos, fault \in VoiceFaults :
          handle_incoming_call(TheCallSid, From, To, fault)

SpeechTurns ==
    \E SpeechResult \in SpeechResults, reply \in AllChatReplies \cup {NoReply},
       fault \in InputFaults :
        handle_speech_input(TheCallSid, SpeechResult, reply, fault)

StatusUpdates ==
    \E ev \in AllStatusEvents, fault \in StatusFaults,
       summary_reply \in AllSummaryReplies \cup {NotAsked},
       sentiment_reply \in AllSentimentReplies \cup {NotAsked} :
        handle_call_status(TheCallSid, ev.CallStatus, ev.CallDuration, fault,
                           summary_reply, sentiment_reply)

BusinessDeleted ==
    \E business_id \in {Businesses[i].id : i \in DOMAIN Businesses} :
        delete_business(business_id)

NextOneCall == CallStarts \/ SpeechTurns \/ StatusUpdates \/ BusinessDeleted

SpecOneCall == Init /\ [][NextOneCall]_vars

-----------------------------------------------------------------------------
(* The handlers as the event loop runs them (SpecLoop).  One step is what a *)
(* task does between two suspensions: from its start or from the completion *)
(* of the operation it awaited, to its next await or to its end.  A call of  *)
(* the model does not suspend: the task keeps the thread until the answer    *)
(* is there, and no other task takes a step meanwhile.  No database          *)
(* operation fails under SpecLoop.                                           *)

\* handler invocations that may be in progress at once
MaxTasks == 2

\* the inputs of SpecLoop
LoopTos == {"+15550001"}
LoopSpeechResults == {"hi"}
LoopChatReplies ==
    { [raises |-> NoneVal, content |-> "Sure, what day works for you?",
       function_call |-> {}],
      [raises |-> NoneVal, content |-> NoneVal,
       function_call |-> {[name |-> "schedule_appointment", arguments |-> ArgsJane]}],
      [raises |-> NoneVal, content |-> NoneVal,
       function_call |-> {[name |-> "transfer_call", arguments |-> ArgsEmpty]}] }
LoopStatusEvents == {[CallStatus |-> "completed", CallDuration |-> {42}]}
LoopSummaryReplies == {" The caller asked for an appointment. "}
LoopSentimentReplies == {" Positive\n"}

\* A task: the handler (kind) and its form fields (CallSid, input), the await
\* or the blocking call it is at (pc), whether active_conversations held the
\* CallSid when it began (had), and its local variables: business_id
\* and call_id of call-start, response of a speech turn, the changes of the
\* call row it has made in its session and not committed (pending), and the
\* conversation dict it got from active_conversations (conversation).
\* That dict is an object the task holds a reference to: while
\* active_conversations has the object under CallSid, conversation is empty
\* and the object is read there; from the moment the entry is replaced or
\* deleted, conversation holds the object, which nothing changes any more.
Task(kind, CallSid, input, pc, had) ==
    [kind |-> kind, CallSid |-> CallSid, input |-> input, pc |-> pc, had |-> had,
     business_id |-> 0, call_id |-> 0, response |-> EmptyDict,
     pending |-> EmptyDict, conversation |-> {}]

\* the pcs at which a task is inside a blocking call of the model
RequestPcs == {"process_input", "summarize_call", "analyze_sentiment"}

\* the place a new task gets in tasks
FreeTask == CHOOSE id \in 1..MaxTasks : id \notin DOMAIN tasks

\* the tasks that hold a reference to the object that active_conversations
\* has under CallSid
Holders(CallSid) ==
    {id \in DOMAIN tasks :
        /\ tasks[id].CallSid = CallSid
        /\ tasks[id].kind \in {"input", "status"}
        /\ tasks[id].conversation = {}}

\* tasks after active_conversations[CallSid] is replaced or deleted: the
\* tasks that hold the object keep it
Detached(ts, CallSid) ==
    [id \in DOMAIN ts |->
        IF id \in Holders(CallSid) /\ CallSid \in DOMAIN active_conversations
        THEN [ts[id] EXCEPT !.conversation = {active_conversations[CallSid]}]
        ELSE ts[id]]

\* the conversation dict of a task
ConversationOf(id) ==
    IF tasks[id].conversation = {}
    THEN active_conversations[tasks[id].CallSid]
    ELSE CHOOSE c \in tasks[id].conversation : TRUE

\* the conversation dict of task id becomes `new`: where the object is, and
\* the task t with it
Mutated(id, t, new) ==
    IF tasks[id].conversation = {}
    THEN [registry |-> SetItem(active_conversations, tasks[id].CallSid, new),
          task |-> t]
    ELSE [registry |-> active_conversations,
          task |-> [t EXCEPT !.conversation = {new}]]

\* a handler starts when the thread is free and there is room for a task
CanStart == blocked = 0 /\ Cardinality(DOMAIN tasks) < MaxTasks

\* task id is resumed at the await pc when the thread is free
CanResume(id, kind, pc) ==
    /\ blocked = 0
    /\ id \in DOMAIN tasks
    /\ tasks[id].kind = kind
    /\ tasks[id].pc = pc

\* POST /twilio/voice up to the await of webhooks.py:34
VoiceStarts(CallSid, To) ==
    /\ CanStart
    /\ tasks' = SetItem(tasks, FreeTask,
                        Task("voice", CallSid, To, "find_business",
                             CallSid \in DOMAIN active_conversations))
    /\ UNCHANGED <<active_conversations, calls, businesses, api_key_set, last, blocked>>

\* webhooks.py:37-59: the business is there and the handler goes on to the
\* commit of the new row, or it returns the not-configured document
VoiceFindsBusiness(id) ==
    LET t == tasks[id]
        found == select_business_by_number(t.input)
    IN
    /\ CanResume(id, "voice", "find_business")
    /\ UNCHANGED <<active_conversations, calls, businesses, api_key_set, blocked>>
    /\ IF found = {}
       THEN /\ tasks' = DelItem(tasks, id)
            /\ last' = Returned("voice", t.CallSid, t.input, t.had,
                           create_response(NotConfiguredMessage, DefaultVoice,
                                           TRUE, TRUE),
                           NoAi, FALSE)
       ELSE /\ tasks' = [tasks EXCEPT ![id].pc = "commit",
                                      ![id].business_id = (CHOOSE b \in found : TRUE).id]
            /\ UNCHANGED last

\* webhooks.py:59-60: the commit inserts the row, which gets its id
VoiceCommits(id) ==
    LET t == tasks[id]
    IN
    /\ CanResume(id, "voice", "commit")
    /\ Len(calls) < MaxCalls
    /\ calls' = Append(calls, Call(NextCallId, t.business_id, t.CallSid,
                                   CHOOSE From \in Froms : TRUE, t.input,
                                   "IN_PROGRESS"))
    /\ tasks' = [tasks EXCEPT ![id].pc = "refresh", ![id].call_id = NextCallId]
    /\ UNCHANGED <<active_conversations, businesses, api_key_set, last, blocked>>

\* webhooks.py:60-77: the refresh is done and the prompts are asked for
VoiceRefreshes(id) ==
    /\ CanResume(id, "voice", "refresh")
    /\ tasks' = [tasks EXCEPT ![id].pc = "load_prompts"]
    /\ UNCHANGED <<active_conversations, calls, businesses, api_key_set, last, blocked>>

\* webhooks.py:83-127: the conversation is stored under the CallSid, in the
\* place of the one that may be there, and the greeting is returned
VoiceLoadsPrompts(id) ==
    LET t == tasks[id]
        business == CHOOSE b \in Range(Businesses) : b.id = t.business_id
        ai_handler(prompts) ==
            add_prompts_to_context(
                AIConversationHandler([name |-> business.name,
                                       services |-> business.services]),
                [i \in DOMAIN prompts |-> prompts[i].id])
    IN
    /\ CanResume(id, "voice", "load_prompts")
    /\ \E prompts \in active_prompts[business.id] :
          active_conversations' =
              SetItem(active_conversations, t.CallSid,
                      NewConversation(ai_handler(prompts), t.call_id, t.business_id))
    /\ tasks' = DelItem(Detached(tasks, t.CallSid), id)
    /\ last' = Returned("voice", t.CallSid, t.input, t.had,
                        create_greeting_response(business.greeting_message,
                                                 polly_voice(business.ai_voice)),
                        NoAi, FALSE)
    /\ UNCHANGED <<calls, businesses, api_key_set, blocked>>

\* what a speech turn returns once process_input has returned `response`
\* and no awaited operation is left (webhooks.py:199-224); business: the
\* rows the select of webhooks.py:194 found
TurnBody(response, business) ==
    LET action == Get(response, "action", NoneVal)
        number == (CHOOSE b \in business : TRUE).phone_number
    IN  IF action = "transfer_call" /\ business # {} /\ Truthy(number)
        THEN transfer_call(number, response.response, DefaultVoice)
        ELSE IF action = "end_call"
        THEN create_response(response.response, DefaultVoice, TRUE, TRUE)
        ELSE create_response(response.response, DefaultVoice, TRUE, FALSE)

\* POST /twilio/handle-input up to the chat-completion request of
\* ai_handler.py:156, which the task makes without giving up the thread; or
\* to its end, where no request is made
SpeechStarts(CallSid, SpeechResult) ==
    LET had == CallSid \in DOMAIN active_conversations
        conversation == active_conversations[CallSid]
        heard == Append(conversation.transcript, "Caller: " \o SpeechResult)
        handler == conversation.ai_handler
        p == process_input(handler, SpeechResult, conversation.collected_info, NoReply)
        asked == [handler EXCEPT !.conversation_history =
                     Append(@, [role |-> "user", content |-> SpeechResult])]
    IN
    /\ blocked = 0
    /\ UNCHANGED <<calls, businesses, api_key_set>>
    /\ IF ~had \/ ~Truthy(SpeechResult)
       THEN /\ last' = Returned("input", CallSid, SpeechResult, had,
                           create_response(DidntCatchMessage, DefaultVoice,
                                           TRUE, FALSE),
                           NoAi, FALSE)
            /\ UNCHANGED <<active_conversations, tasks, blocked>>
       ELSE
         /\ Len(conversation.transcript) < 2 * MaxTurns
         /\ IF ~handler.client
            THEN /\ active_conversations' =
                        SetItem(active_conversations, CallSid,
                                [conversation EXCEPT
                                    !.transcript =
                                        Append(heard, "AI: " \o Str(p.result.response))])
                 /\ last' = Returned("input", CallSid, SpeechResult, had,
                                     TurnBody(p.result, {}), p.result, FALSE)
                 /\ UNCHANGED <<tasks, blocked>>
            ELSE IF build_system_prompt(handler).raises # NoneVal
            THEN /\ active_conversations' =
                        SetItem(active_conversations, CallSid,
                                [conversation EXCEPT !.ai_handler = asked,
                                                     !.transcript = heard])
                 /\ last' = RaisedByModel("input", CallSid, SpeechResult, had,
                                          NoAi, FALSE)
                 /\ UNCHANGED <<tasks, blocked>>
            ELSE /\ Cardinality(DOMAIN tasks) < MaxTasks
                 /\ active_conversations' =
                        SetItem(active_conversations, CallSid,
                                [conversation EXCEPT !.ai_handler = asked,
                                                     !.transcript = heard])
                 /\ tasks' = SetItem(tasks, FreeTask,
                                     Task("input", CallSid, SpeechResult,
                                          "process_input", had))
                 /\ blocked' = FreeTask
                 /\ UNCHANGED last

\* ai_handler.py:201-234 and webhooks.py:163-194: the request answers or
\* raises, and the turn goes on to the await its action leads to, or ends
ModelAnswers(id, reply) ==
    LET t == tasks[id]
        conversation == ConversationOf(id)
        p == request_outcome(conversation.ai_handler, reply)
        response == p.result
        action == Get(response, "action", NoneVal)
        action_data == Get(response, "action_data", NoneVal)
        answered == [conversation EXCEPT
                        !.ai_handler = p.ai_handler,
                        !.transcript = Append(@, "AI: " \o Str(response.response))]
        scheduled == [answered EXCEPT
                        !.collected_info =
                            IF DOMAIN action_data # {}
                            THEN Update(@, action_data) ELSE @]
        waits == action \in {"schedule_appointment", "transfer_call"}
        m == Mutated(id,
                     [t EXCEPT !.response = response,
                               !.pc = IF action = "schedule_appointment"
                                      THEN "find_call" ELSE "find_business"],
                     IF action = "schedule_appointment" THEN scheduled ELSE answered)
    IN
    /\ blocked = id
    /\ id \in DOMAIN tasks
    /\ t.pc = "process_input"
    /\ blocked' = 0
    /\ active_conversations' = m.registry
    /\ UNCHANGED <<calls, businesses, api_key_set>>
    /\ IF waits
       THEN /\ tasks' = [tasks EXCEPT ![id] = m.task]
            /\ UNCHANGED last
       ELSE /\ tasks' = DelItem(tasks, id)
            /\ last' = Returned("input", t.CallSid, t.input, t.had,
                                TurnBody(response, {}), response, TRUE)

\* webhooks.py:177-190: the row of the call is there and the turn goes on to
\* the commit of its three fields, or it is not and the turn ends
SpeechFindsCall(id) ==
    LET t == tasks[id]
        conversation == ConversationOf(id)
    IN
    /\ CanResume(id, "input", "find_call")
    /\ UNCHANGED <<active_conversations, calls, businesses, api_key_set, blocked>>
    /\ IF select_call_by_id(conversation.call_id) = {}
       THEN /\ tasks' = DelItem(tasks, id)
            /\ last' = Returned("input", t.CallSid, t.input, t.had,
                                create_response(t.response.response, DefaultVoice,
                                                TRUE, TRUE),
                                t.response, TRUE)
       ELSE /\ tasks' =
                [tasks EXCEPT
                    ![id].pc = "commit",
                    ![id].call_id = conversation.call_id,
                    ![id].pending =
                        [collected_info |-> conversation.collected_info,
                         action_taken |-> "appointment_scheduled",
                         action_details |->
                             Get(t.response, "action_data", EmptyDict)]]
            /\ UNCHANGED last

\* webhooks.py:182-190: the commit writes the three fields and the turn ends
SpeechCommits(id) ==
    LET t == tasks[id]
    IN
    /\ CanResume(id, "input", "commit")
    /\ calls' = UpdateCall(t.call_id, [c \in Range(calls) |-> Update(c, t.pending)])
    /\ tasks' = DelItem(tasks, id)
    /\ last' = Returned("input", t.CallSid, t.input, t.had,
                        create_response(t.response.response, DefaultVoice,
                                        TRUE, TRUE),
                        t.response, TRUE)
    /\ UNCHANGED <<active_conversations, businesses, api_key_set, blocked>>

\* webhooks.py:197-224: the business of the conversation is looked up and the
\* turn ends with the transfer, or with a gather where no number is there
SpeechFindsBusiness(id) ==
    LET t == tasks[id]
    IN
    /\ CanResume(id, "input", "find_business")
    /\ tasks' = DelItem(tasks, id)
    /\ last' = Returned("input", t.CallSid, t.input, t.had,
                        TurnBody(t.response,
                                 select_business_by_id(ConversationOf(id).business_id)),
                        t.response, TRUE)
    /\ UNCHANGED <<active_conversations, calls, businesses, api_key_set, blocked>>

\* POST /twilio/status up to the await of webhooks.py:241, or to its end
\* where active_conversations has no conversation under the CallSid
StatusStarts(CallSid, ev) ==
    /\ blocked = 0
    /\ UNCHANGED <<active_conversations, calls, businesses, api_key_set, blocked>>
    /\ IF CallSid \notin DOMAIN active_conversations
       THEN /\ last' = Returned("status", CallSid, NoneVal, FALSE,
                                StatusOk, NoAi, FALSE)
            /\ UNCHANGED tasks
       ELSE /\ Cardinality(DOMAIN tasks) < MaxTasks
            /\ tasks' = SetItem(tasks, FreeTask,
                            [Task("status", CallSid, ev.CallStatus, "find_call", TRUE)
                                EXCEPT !.response =
                                    [summary |-> NotAsked, sentiment |-> NotAsked,
                                     duration |-> ev.CallDuration]])
            /\ UNCHANGED last

\* the text handed to analyze_sentiment (webhooks.py:265-272)
SentimentText(conversation) == Join(" ", caller_messages(conversation.transcript))

\* whether the status handler calls analyze_sentiment (webhooks.py:265, 271)
WantsSentiment(conversation) ==
    /\ Truthy(Join("\n", conversation.transcript))
    /\ caller_messages(conversation.transcript) # << >>

\* the status task t with call.call_summary set (webhooks.py:262), at what
\* comes next: the sentiment request, which the task makes without giving
\* up the thread, or the await of the commit
Summarized(t, conversation, call_summary) ==
    LET s == [t EXCEPT !.pending = Update(@, [call_summary |-> call_summary])]
        ai_handler == conversation.ai_handler
    IN  IF ~WantsSentiment(conversation)
        THEN [s EXCEPT !.pc = "commit"]
        ELSE IF ai_handler.client
        THEN [s EXCEPT !.pc = "analyze_sentiment"]
        ELSE [s EXCEPT !.pc = "commit",
                       !.pending =
                           Update(@, [sentiment |->
                               analyze_sentiment(ai_handler,
                                                 SentimentText(conversation),
                                                 NotAsked)])]

\* the task that holds the thread after a step that leaves task id as t
Blocking(id, t) == IF t.pc \in RequestPcs THEN id ELSE 0

\* del active_conversations[CallSid] and the return of webhooks.py:277-279;
\* the del raises KeyError where the key is not there any more
StatusEnds(id, input, ai, requested) ==
    LET t == tasks[id]
    IN  IF t.CallSid \in DOMAIN active_conversations
        THEN /\ active_conversations' = DelItem(active_conversations, t.CallSid)
             /\ tasks' = DelItem(Detached(tasks, t.CallSid), id)
             /\ last' = Returned("status", t.CallSid, input, TRUE, StatusOk,
                                 ai, requested)
        ELSE /\ UNCHANGED active_conversations
             /\ tasks' = DelItem(tasks, id)
             /\ last' = Ended("status", t.CallSid, input, TRUE, TRUE, "KeyError",
                              << >>, ai, requested)

\* webhooks.py:244-262: the row is looked up; where it is there, status,
\* duration and transcript are set and the summary is asked for
StatusFindsCall(id) ==
    LET t == tasks[id]
        conversation == ConversationOf(id)
        ai_handler == conversation.ai_handler
        set == [t EXCEPT
                  !.call_id = conversation.call_id,
                  !.pending =
                      [status |-> status_map(t.input),
                       duration_seconds |-> DurationOrZero(t.response.duration),
                       transcript |-> Join("\n", conversation.transcript)]]
        next == IF ai_handler.client /\ ai_handler.conversation_history # << >>
                THEN [set EXCEPT !.pc = "summarize_call"]
                ELSE Summarized(set, conversation,
                                summarize_call(ai_handler, NotAsked))
    IN
    /\ CanResume(id, "status", "find_call")
    /\ UNCHANGED <<calls, businesses, api_key_set>>
    /\ IF select_call_by_id(conversation.call_id) = {}
       THEN /\ StatusEnds(id, NoneVal, NoAi, FALSE)
            /\ UNCHANGED blocked
       ELSE /\ tasks' = [tasks EXCEPT ![id] = next]
            /\ blocked' = Blocking(id, next)
            /\ UNCHANGED <<active_conversations, last>>

\* ai_handler.py:279-290: the summary request answers or raises
SummaryAnswers(id, reply) ==
    LET t == tasks[id]
        conversation == ConversationOf(id)
        next == Summarized([t EXCEPT !.response.summary = reply], conversation,
                           summarize_call(conversation.ai_handler, reply))
    IN
    /\ blocked = id
    /\ id \in DOMAIN tasks
    /\ t.pc = "summarize_call"
    /\ tasks' = [tasks EXCEPT ![id] = next]
    /\ blocked' = Blocking(id, next)
    /\ UNCHANGED <<active_conversations, calls, businesses, api_key_set, last>>

\* ai_handler.py:252-266: the sentiment request answers or raises
SentimentAnswers(id, reply) ==
    LET t == tasks[id]
        conversation == ConversationOf(id)
    IN
    /\ blocked = id
    /\ id \in DOMAIN tasks
    /\ t.pc = "analyze_sentiment"
    /\ tasks' = [tasks EXCEPT
                    ![id].response.sentiment = reply,
                    ![id].pc = "commit",
                    ![id].pending =
                        Update(@, [sentiment |->
                            analyze_sentiment(conversation.ai_handler,
                                              SentimentText(conversation), reply)])]
    /\ blocked' = 0
    /\ UNCHANGED <<active_conversations, calls, businesses, api_key_set, last>>

\* webhooks.py:274-279: the commit writes the fields that were set, the
\* conversation is deleted and the handler returns
StatusCommits(id) ==
    LET t == tasks[id]
    IN
    /\ CanResume(id, "status", "commit")
    /\ calls' = UpdateCall(t.call_id, [c \in Range(calls) |-> Update(c, t.pending)])
    /\ StatusEnds(id, t.input, t.response,
                  t.response.summary # NotAsked \/ t.response.sentiment # NotAsked)
    /\ UNCHANGED <<businesses, api_key_set, blocked>>

\* the steps of the event loop
LoopStart ==
    \/ \E CallSid \in CallSids, To \in LoopTos : VoiceStarts(CallSid, To)
    \/ \E CallSid \in CallSids, SpeechResult \in LoopSpeechResults :
          SpeechStarts(CallSid, SpeechResult)
    \/ \E CallSid \in CallSids, ev \in LoopStatusEvents : StatusStarts(CallSid, ev)

LoopResume ==
    \E id \in 1..MaxTasks :
        \/ VoiceFindsBusiness(id)
        \/ VoiceCommits(id)
        \/ VoiceRefreshes(id)
        \/ VoiceLoadsPrompts(id)
        \/ SpeechFindsCall(id)
        \/ SpeechCommits(id)
        \/ SpeechFindsBusiness(id)
        \/ StatusFindsCall(id)
        \/ StatusCommits(id)

LoopAnswer ==
    \E id \in 1..MaxTasks :
        \/ \E reply \in LoopChatReplies : ModelAnswers(id, reply)
        \/ \E reply \in LoopSummaryReplies : SummaryAnswers(id, reply)
        \/ \E reply \in LoopSentimentReplies : SentimentAnswers(id, reply)

NextLoop == LoopStart \/ LoopResume \/ LoopAnswer

\* SpecLoop follows the server that has its credentials: without them no
\* request is made and no handler holds the thread
InitLoop == Init /\ api_key_set

SpecLoop == InitLoop /\ [][NextLoop]_vars

-----------------------------------------------------------------------------
(* One call identifier on the event loop, with the scheduling the server has *)

\* the handlers that start for the call identifier SpecLoopFair follows
LoopStartOneCall ==
    \/ \E To \in LoopTos : VoiceStarts(TheCallSid, To)
    \/ \E SpeechResult \in LoopSpeechResults : SpeechStarts(TheCallSid, SpeechResult)
    \/ \E ev \in LoopStatusEvents : StatusStarts(TheCallSid, ev)

NextLoopOneCall == LoopStartOneCall \/ LoopResume \/ LoopAnswer

\* The event loop resumes a task once the database operation it awaits is
\* done, and the operations of the local database session get done: a
\* suspended task goes on.  Nothing of the kind holds for a request of the
\* model: the client is built with the key alone (ai_handler.py:18) and the
\* requests pass no timeout (ai_handler.py:156-199, 252-259, 279-286), so
\* the code sets no time by which a request has answered or raised.
SpecLoopFair ==
    /\ InitLoop
    /\ [][NextLoopOneCall]_vars
    /\ WF_vars(LoopResume)

-----------------------------------------------------------------------------
(* The claims *)

Live(c) == c \in DOMAIN active_conversations

\* C1: after the status-update handler has run for call identifier c, the
\* registry holds no conversation state for c, also when the read of the call
\* row or the commit of the final write raised in that handler.
C1_EvictionUnconditional ==
    last.kind = "status" => ~Live(last.CallSid)

\* C2: a call-start event delivered for a call identifier that is present in
\* the registry leaves the state held for it untouched.
C2_CreateKeepsExisting ==
    [][\A c \in CallSids :
          (Live(c) /\ last'.kind = "voice" /\ last'.CallSid = c)
              => (c \in DOMAIN active_conversations'
                  /\ active_conversations'[c] = active_conversations[c])]_vars

\* C3: a status event delivered right after a status event for the same call
\* identifier that returned does not raise, finds no conversation state,
\* changes neither the registry nor any call row, and returns the same
\* acknowledgement as the first.
C3_SecondStatusNoOp ==
    [][(/\ last.kind = "status" /\ ~last.raised
        /\ last'.kind = "status" /\ last'.CallSid = last.CallSid)
          => (/\ ~last'.raised
              /\ ~last'.had_conversation
              /\ active_conversations' = active_conversations
              /\ calls' = calls
              /\ last'.body = last.body
              /\ last'.body = << [status |-> "ok"] >>)]_vars

\* C3's case: a second status delivery has returned after one that evicted the
\* state and finalized the row of the call.
C3_Witness ==
    /\ last.kind = "status" /\ last.repeated /\ ~last.raised
    /\ \E i \in DOMAIN calls :
          calls[i].twilio_call_sid = last.CallSid /\ calls[i].status # "IN_PROGRESS"

\* C4: while a call identifier stays in the registry, the lengths of its
\* conversation_history and of its transcript never decrease, whatever
\* call-start, speech-turn and empty-speech events are delivered for it.
C4_HistoryNeverShrinks ==
    [][\A c \in CallSids :
          (Live(c) /\ c \in DOMAIN active_conversations')
              => (/\ Len(active_conversations'[c].transcript)
                        >= Len(active_conversations[c].transcript)
                  /\ Len(active_conversations'[c].ai_handler.conversation_history)
                        >= Len(active_conversations[c].ai_handler.conversation_history))]_vars

\* the state stored under c is the state of call c, and of no other identifier
StateBelongsToItsCall ==
    /\ \A c \in DOMAIN active_conversations :
          /\ active_conversations[c].call_id \in DOMAIN calls
          /\ calls[active_conversations[c].call_id].twilio_call_sid = c
    /\ \A c, d \in DOMAIN active_conversations :
          active_conversations[c].call_id = active_conversations[d].call_id => c = d

\* an invocation for one call identifier neither reads, replaces nor evicts
\* what is stored under another
OnlyThroughItsKey ==
    \A d \in CallSids \ {last'.CallSid} :
        /\ d \in DOMAIN active_conversations' <=> Live(d)
        /\ Live(d) => active_conversations'[d] = active_conversations[d]

\* C5: in every reachable state the registry holds at most one conversation
\* state per call identifier, the one of that call, and the state stored under
\* c is only ever replaced or evicted by an invocation for c.
C5_RegistryPerCall ==
    []StateBelongsToItsCall /\ [][OnlyThroughItsKey]_vars

\* C5's case: a status event evicted the state of one call while another call
\* was live, after a speech turn of that other call.
C5_Witness ==
    /\ last.kind = "status" /\ last.had_conversation /\ ~last.raised
    /\ \E d \in DOMAIN active_conversations :
          d # last.CallSid /\ active_conversations[d].transcript # << >>

\* the conversation state of c was evicted by a status event: only that
\* handler takes a call row out of IN_PROGRESS, in the invocation that evicts
Evicted(c) ==
    \E i \in DOMAIN calls :
        calls[i].twilio_call_sid = c /\ calls[i].status # "IN_PROGRESS"

\* C6: a call identifier whose conversation state was evicted by a status
\* event has no conversation state in the registry ever after.
C6_NoReentryAfterEviction ==
    \A c \in CallSids : Evicted(c) => ~Live(c)

\* the document of a reply with the gather directive
GatherDocument(message, voice, reprompt) ==
    << [verb |-> "Gather", input |-> "speech",
        action |-> "/api/webhooks/twilio/handle-input",
        say |-> [verb |-> "Say", text |-> message, voice |-> voice]],
       [verb |-> "Say", text |-> reprompt, voice |-> voice],
       [verb |-> "Redirect", url |-> "/api/webhooks/twilio/voice"] >>

\* the document of a reply with the hang-up directive
HangupDocument(message) ==
    << [verb |-> "Say", text |-> message, voice |-> "Polly.Joanna"],
       [verb |-> "Hangup"] >>

\* the numbers that table businesses holds as twilio_phone_number
ConfiguredNumbers == {Businesses[i].twilio_phone_number : i \in DOMAIN Businesses}

\* the Polly voice of the greeting of a business
ExpectedVoice(b) == IF b.ai_voice = "nova" THEN "Polly.Salli" ELSE "Polly.Joanna"

\* C7: a call-start event whose called number matches no business returns the
\* "not configured" message with the hang-up directive and leaves the registry
\* and the call rows unchanged.
C7_UnmatchedCallStart ==
    [][(last'.kind = "voice" /\ ~last'.raised /\ last'.input \notin ConfiguredNumbers)
          => (/\ last'.body =
                    HangupDocument("We're sorry, but this number is not configured. Please try again later.")
              /\ active_conversations' = active_conversations
              /\ calls' = calls)]_vars

\* C7's case: the "not configured" reply was returned for a call identifier
\* while another call was live.
C7_Witness ==
    /\ last.kind = "voice" /\ ~last.raised /\ last.input \notin ConfiguredNumbers
    /\ last.body # << >>
    /\ active_conversations # EmptyDict

C9_EmptyOrUnknownSpeechTurn ==
    [][(last'.kind = "input"
        /\ (last'.input \in {NoneVal, ""} \/ ~Live(last'.CallSid)))
          => (/\ ~last'.raised
              /\ last'.body =
                    GatherDocument("I'm sorry, I didn't catch that. Could you please repeat?",
                                   "Polly.Joanna", "Are you still there?")
              /\ ~last'.requested
              /\ active_conversations' = active_conversations
              /\ calls' = calls)]_vars

\* C9's cases: an empty speech text on a live call that has had a turn, an
\* absent one on a live call, and a speech text for a call without state.
C9_Witness ==
    /\ last.kind = "input" /\ last.input = "" /\ Live(last.CallSid)
    /\ active_conversations[last.CallSid].transcript # << >>
C9_WitnessAbsent ==
    last.kind = "input" /\ last.input = NoneVal /\ Live(last.CallSid)
C9_WitnessNoState ==
    last.kind = "input" /\ last.input = "hi" /\ ~Live(last.CallSid) /\ ~last.raised

\* C10: when the model returns action schedule_appointment with fields F on
\* a speech turn of a live call and the handler returns its document, the call
\* row of the conversation has action_taken "appointment_scheduled" and
\* action_details F committed, and the document carries the hang-up directive.
C10_ScheduleAppointment ==
    [][(/\ last'.kind = "input" /\ ~last'.raised
        /\ Get(last'.ai, "action", NoneVal) = "schedule_appointment")
          => LET id == active_conversations[last'.CallSid].call_id
             IN  /\ calls'[id].action_taken = "appointment_scheduled"
                 /\ calls'[id].action_details = last'.ai.action_data
                 /\ last'.body = HangupDocument(last'.ai.response)
                 /\ ~HasVerb(last'.body, "Gather")
                 /\ ~HasVerb(last'.body, "Dial")]_vars

\* C10's case: the scheduling turn has returned, with the fields of the
\* scenario.
C10_Witness ==
    /\ last.kind = "input" /\ ~last.raised
    /\ Get(last.ai, "action", NoneVal) = "schedule_appointment"
    /\ last.ai.action_data =
          [patient_name |-> "Jane", preferred_date |-> "2024-06-01",
           preferred_time |-> "10:00"]
    /\ HasVerb(last.body, "Hangup")

\* the document of a transfer: the spoken preamble, then the dial directive
TransferDocument(message, number) ==
    << [verb |-> "Say", text |-> message, voice |-> "Polly.Joanna"],
       [verb |-> "Dial", number |-> number] >>

\* the transfer number of the business a conversation state belongs to: none
\* when the row is gone or holds no number
TransferNumbers(business_id) ==
    {Businesses[i].phone_number :
        i \in {j \in DOMAIN Businesses :
                  /\ Businesses[j].id = business_id
                  /\ Businesses[j].id \in businesses
                  /\ Businesses[j].phone_number \notin {NoneVal, ""}}}

\* a speech turn has returned on which the model gave this action
TurnReturnedWith(action) ==
    /\ last'.kind = "input" /\ ~last'.raised
    /\ Get(last'.ai, "action", NoneVal) = action

\* C11: when the model returns action transfer_call on a speech turn and the
\* business of the call has a transfer number, the document is the model's
\* reply as spoken preamble followed by the dial directive to exactly that
\* number; when the business row is gone or holds no number, the document is
\* the model's reply with the gather directive.
C11_TransferCall ==
    [][TurnReturnedWith("transfer_call")
          => LET numbers ==
                     TransferNumbers(active_conversations[last'.CallSid].business_id)
             IN  /\ last'.ai.response # ""
                 /\ \A n \in numbers :
                       last'.body = TransferDocument(last'.ai.response, n)
                 /\ numbers = {} =>
                       last'.body = GatherDocument(last'.ai.response, "Polly.Joanna",
                                                   "Are you still there?")]_vars

\* C11's cases: a transfer to the number of the business, with the text the
\* model sent along as preamble; the gather document for a business without
\* a number; and the gather document for a business deleted during the call.
C11_Witness ==
    /\ last.kind = "input" /\ ~last.raised
    /\ Get(last.ai, "action", NoneVal) = "transfer_call"
    /\ last.body = TransferDocument("One moment, I will put you through.", "+15550100")
C11_WitnessNoNumber ==
    /\ last.kind = "input" /\ ~last.raised
    /\ Get(last.ai, "action", NoneVal) = "transfer_call"
    /\ active_conversations[last.CallSid].business_id = 2
    /\ 2 \in businesses
    /\ HasVerb(last.body, "Gather")
C11_WitnessDeleted ==
    /\ last.kind = "input" /\ ~last.raised
    /\ Get(last.ai, "action", NoneVal) = "transfer_call"
    /\ active_conversations[last.CallSid].business_id \notin businesses
    /\ HasVerb(last.body, "Gather")

\* C12: when the model returns action end_call on a speech turn, the document
\* is the model's reply with the hang-up directive, the turn writes no field
\* of any call row, and the conversation state is still in the registry after
\* the turn; a state leaves the registry only in a status event for its call
\* identifier.
C12_EndCall ==
    [][/\ TurnReturnedWith("end_call")
          => (/\ last'.ai.response # ""
              /\ last'.body = HangupDocument(last'.ai.response)
              /\ calls' = calls
              /\ last'.CallSid \in DOMAIN active_conversations'
              /\ active_conversations'[last'.CallSid].call_id
                    = active_conversations[last'.CallSid].call_id)
       /\ \A c \in CallSids :
             (Live(c) /\ c \notin DOMAIN active_conversations')
                => (last'.kind = "status" /\ last'.CallSid = c)]_vars

\* C12's case: the end_call turn has returned the hang-up document and the
\* row of the call is as call-start wrote it.
C12_Witness ==
    /\ last.kind = "input" /\ ~last.raised
    /\ Get(last.ai, "action", NoneVal) = "end_call"
    /\ last.body = HangupDocument("Thank you for calling! Have a great day.")
    /\ Live(last.CallSid)
    /\ \E i \in DOMAIN calls :
          /\ calls[i].id = active_conversations[last.CallSid].call_id
          /\ calls[i].status = "IN_PROGRESS"
          /\ calls[i].action_taken = NoneVal

\* the actions the speech-turn handler has a branch for
KnownActions == {"schedule_appointment", "transfer_call", "end_call"}

\* C13: when process_input returns no action, or an action that is none of
\* schedule_appointment, transfer_call and end_call, the speech turn returns
\* the reply with the gather directive and writes no field of any call row.
C13_ContinueConversation ==
    [][(/\ last'.kind = "input" /\ DOMAIN last'.ai # {}
        /\ Get(last'.ai, "action", NoneVal) \notin KnownActions)
          => (/\ ~last'.raised
              /\ last'.body = GatherDocument(last'.ai.response, "Polly.Joanna",
                                             "Are you still there?")
              /\ calls' = calls)]_vars

\* C13's cases: a reply without a function call, and a function call the
\* request did not offer.
C13_Witness ==
    /\ last.kind = "input" /\ ~last.raised
    /\ last.ai = [response |-> "Sure, what day works for you?", action |-> NoneVal,
                  action_data |-> NoneVal]
    /\ HasVerb(last.body, "Gather")
C13_WitnessUnknown ==
    /\ last.kind = "input" /\ ~last.raised /\ DOMAIN last.ai # {}
    /\ Get(last.ai, "action", NoneVal) = "take_message"
    /\ HasVerb(last.body, "Gather")

\* C14: when the chat-completion request of a speech turn fails (it raises, or
\* it sends function arguments json.loads rejects), process_input returns
\* the fixed fallback reply with an error marker and with action
\* transfer_call, the value the handler's transfer branch tests for.
C14_FailureActionIsTransferCall ==
    [][(last'.kind = "input" /\ last'.requested /\ "error" \in DOMAIN last'.ai)
          => (/\ last'.ai.response =
                    "I apologize, but I'm experiencing some issues. Let me transfer you to our staff."
              /\ last'.ai.error # ""
              /\ last'.ai.action = "transfer_call")]_vars

\* C15: process_input never raises: whatever the chat-completion request does
\* and whatever the business context holds, a speech turn that reaches
\* process_input gets a result from it, and the spoken reply is one of the
\* fixed texts or the text of the model, never the text of the error.
C15_ProcessInputNeverRaises ==
    [][(last'.kind = "input" /\ last'.had_conversation
        /\ last'.input \notin {NoneVal, ""})
          => (/\ last'.cause # "model"
              /\ DOMAIN last'.ai # {}
              /\ ("error" \in DOMAIN last'.ai
                     => last'.ai.response # last'.ai.error))]_vars

\* the reply of process_input when no API key is set
TechnicalDifficulties ==
    "I apologize, but I'm having technical difficulties. Please hold while I transfer you to our staff."

\* the rows a status event for the state under c finalizes
RowsOf(c) ==
    {i \in DOMAIN calls : calls[i].id = active_conversations[c].call_id}

\* a status event has returned that found the conversation state of its call
StatusReturned ==
    last'.kind = "status" /\ last'.had_conversation /\ ~last'.raised

C16_WitnessSilent ==
    /\ ~api_key_set
    /\ last.kind = "status" /\ last.had_conversation /\ ~last.raised
    /\ \E i \in DOMAIN calls :
          /\ calls[i].status # "IN_PROGRESS" /\ calls[i].transcript = ""
          /\ calls[i].sentiment = NoneVal

\* the status the call row is to get for a provider status, which is compared
\* without regard to case
ExpectedStatus(provider_status) ==
    CASE provider_status \in {"completed", "Completed"} -> "COMPLETED"
      [] provider_status \in {"busy", "Busy", "no-answer", "canceled"} -> "MISSED"
      [] provider_status \in {"failed", "Failed"} -> "FAILED"
      [] OTHER -> "COMPLETED"

\* C17: a status event for a call with conversation state that finalizes the
\* row of the call sets its status from the provider status: completed to
\* COMPLETED; busy, no-answer and canceled to MISSED; failed to FAILED; every
\* other value, the provider statuses that are not terminal among them, to
\* COMPLETED.  The row is not IN_PROGRESS afterwards.
C17_StatusMapping ==
    [][StatusReturned
          => \A i \in RowsOf(last'.CallSid) :
                /\ calls'[i].status = ExpectedStatus(last'.input)
                /\ calls'[i].status # "IN_PROGRESS"]_vars

\* C17's cases: a row finalized as FAILED, one as MISSED, and one as COMPLETED
\* on a provider status that is not terminal.
C17_Witness ==
    /\ last.kind = "status" /\ last.had_conversation /\ ~last.raised
    /\ last.input = "failed"
    /\ \E i \in DOMAIN calls : calls[i].status = "FAILED"
C17_WitnessMissed ==
    /\ last.kind = "status" /\ last.had_conversation /\ ~last.raised
    /\ last.input = "no-answer"
    /\ \E i \in DOMAIN calls : calls[i].status = "MISSED"
C17_WitnessNotTerminal ==
    /\ last.kind = "status" /\ last.had_conversation /\ ~last.raised
    /\ last.input = "ringing"
    /\ \E i \in DOMAIN calls : calls[i].status = "COMPLETED"

RECURSIVE JoinedByNewline(_)
\* the lines in their order, a newline between each two
JoinedByNewline(lines) ==
    IF lines = << >> THEN ""
    ELSE IF Len(lines) = 1 THEN lines[1]
    ELSE JoinedByNewline(SubSeq(lines, 1, Len(lines) - 1))
            \o "\n" \o lines[Len(lines)]

\* the seconds the provider reported with the status event, 0 when it
\* reported none
ReportedSeconds == IF last'.ai.duration = {} THEN 0 ELSE CHOOSE d \in last'.ai.duration : TRUE

\* C18: after a status event for a call with conversation state and a call
\* row, the row's duration is the seconds the provider reported (0 when
\* absent), its transcript is the transcript lines joined by newline in the
\* order of their appends, and its summary is a non-empty text.
C18_FinalizedRecord ==
    [][StatusReturned
          => \A i \in RowsOf(last'.CallSid) :
                /\ calls'[i].duration_seconds = ReportedSeconds
                /\ calls'[i].transcript =
                      JoinedByNewline(active_conversations[last'.CallSid].transcript)
                /\ calls'[i].call_summary \notin {NoneVal, ""}]_vars

\* the part of C18 on duration and transcript
C18_DurationAndTranscript ==
    [][StatusReturned
          => \A i \in RowsOf(last'.CallSid) :
                /\ calls'[i].duration_seconds = ReportedSeconds
                /\ calls'[i].transcript =
                      JoinedByNewline(active_conversations[last'.CallSid].transcript)]_vars

\* the scenario of C18: completed, 42 seconds, a two-line transcript
C18_Scenario ==
    /\ last.kind = "status" /\ last.had_conversation /\ ~last.raised
    /\ \E i \in DOMAIN calls :
          /\ calls[i].status = "COMPLETED" /\ calls[i].duration_seconds = 42
          /\ calls[i].transcript = "Caller: hi\nAI: Sure, what day works for you?"
          /\ calls[i].call_summary = "The caller asked for an appointment."

\* the sentiment to be stored for what the sentiment request did: its answer
\* when that is one of the three words, blanks and case aside; neutral when
\* the request raised, was not made for want of an API key, or answered
\* anything else
ExpectedSentiment(sentiment_reply) ==
    CASE sentiment_reply \in {" Positive\n", "positive"} -> "positive"
      [] sentiment_reply \in {"NEGATIVE", "negative"} -> "negative"
      [] OTHER -> "neutral"

\* C19: analyze_sentiment returns one of positive, neutral, negative, and
\* neutral whenever its request raises, no API key is set, or the answer is
\* not one of the three words; summarize_call returns exactly "No conversation
\* to summarize." when conversation_history is empty; neither raises, so a
\* status event raises only when a database operation does.
C19_SentimentAndSummaryDefaults ==
    [][/\ StatusReturned
          => LET state == active_conversations[last'.CallSid]
             IN  \A i \in RowsOf(last'.CallSid) :
                    /\ state.transcript # << >>
                          => /\ calls'[i].sentiment
                                   \in {"positive", "neutral", "negative"}
                             /\ calls'[i].sentiment
                                   = ExpectedSentiment(last'.ai.sentiment)
                    /\ state.ai_handler.conversation_history = << >>
                          => calls'[i].call_summary = "No conversation to summarize."
       /\ (last'.kind = "status" /\ last'.raised) => last'.cause = "database"]_vars

\* C19's cases: an answer that is none of the three words stored as neutral;
\* a raising sentiment request stored as neutral; and, with an API key set,
\* the default summary of a call without a turn.
C19_Witness ==
    /\ last.kind = "status" /\ last.had_conversation /\ ~last.raised
    /\ Get(last.ai, "sentiment", NotAsked) = "mixed"
    /\ \E i \in DOMAIN calls :
          calls[i].sentiment = "neutral" /\ calls[i].status # "IN_PROGRESS"
C19_WitnessRaised ==
    /\ last.kind = "status" /\ last.had_conversation /\ ~last.raised
    /\ Get(last.ai, "sentiment", NotAsked) = NoneVal /\ api_key_set
    /\ \E i \in DOMAIN calls :
          calls[i].sentiment = "neutral" /\ calls[i].status # "IN_PROGRESS"
C19_WitnessEmptyHistory ==
    /\ last.kind = "status" /\ last.had_conversation /\ ~last.raised
    /\ api_key_set
    /\ \E i \in DOMAIN calls :
          /\ calls[i].call_summary = "No conversation to summarize."
          /\ calls[i].transcript = ""

\* C20: a status event for a call identifier without conversation state does
\* not raise, changes no call row and no entry of the registry, and returns
\* the acknowledgement every status event returns.
C20_StatusWithoutState ==
    [][(last'.kind = "status" /\ ~Live(last'.CallSid))
          => (/\ ~last'.raised
              /\ ~last'.had_conversation
              /\ calls' = calls
              /\ active_conversations' = active_conversations
              /\ last'.body = << [status |-> "ok"] >>)]_vars

\* C20's case: the status event of a call identifier that never had state has
\* returned while another call is live with its row IN_PROGRESS.
C20_Witness ==
    /\ last.kind = "status" /\ ~last.had_conversation /\ ~last.raised
    /\ ~last.repeated
    /\ \A i \in DOMAIN calls : calls[i].twilio_call_sid # last.CallSid
    /\ \E d \in DOMAIN active_conversations :
          /\ d # last.CallSid
          /\ \E i \in DOMAIN calls :
                /\ calls[i].id = active_conversations[d].call_id
                /\ calls[i].status = "IN_PROGRESS"

\* C21: every document with the gather directive (the greeting, a reply that
\* continues the conversation, the "didn't catch that" reply) holds, right
\* after the gather element, a spoken re-prompt in the voice of the gather and
\* then a redirect to the call-start entry point, and nothing else.
C21_GatherHasFallback ==
    \A i \in DOMAIN last.body :
        (last.kind \in {"voice", "input"} /\ last.body[i].verb = "Gather")
           => /\ i = 1 /\ Len(last.body) = 3
              /\ last.body[1].input = "speech"
              /\ last.body[1].action = "/api/webhooks/twilio/handle-input"
              /\ last.body[2].verb = "Say"
              /\ last.body[2].text \notin {NoneVal, ""}
              /\ last.body[2].voice = last.body[1].say.voice
              /\ last.body[3] = [verb |-> "Redirect",
                                 url |-> "/api/webhooks/twilio/voice"]

\* C21's cases: the greeting, a reply that continues the conversation, and
\* the "didn't catch that" reply, each with its fallback.
C21_Witness ==
    /\ last.kind = "input" /\ ~last.raised /\ last.requested
    /\ Len(last.body) = 3 /\ last.body[1].verb = "Gather"
    /\ last.body[1].say.text = "Sure, what day works for you?"
    /\ last.body[3].verb = "Redirect"
C21_WitnessGreeting ==
    /\ last.kind = "voice" /\ ~last.raised
    /\ Len(last.body) = 3 /\ last.body[1].verb = "Gather"
    /\ last.body[2].text = "I didn't catch that. How may I help you?"
C21_WitnessDidntCatch ==
    /\ last.kind = "input" /\ ~last.raised /\ ~last.requested
    /\ Len(last.body) = 3 /\ last.body[1].verb = "Gather"
    /\ last.body[1].say.text = "I'm sorry, I didn't catch that. Could you please repeat?"
    /\ last.body[2].text = "Are you still there?"

-----------------------------------------------------------------------------
(* C22-C23: handlers of two calls that overlap (SpecLoop) *)

\* the tasks that are inside the chat-completion request of a speech turn
InFlight == {id \in DOMAIN tasks : tasks[id].pc = "process_input"}

\* a handler for CallSid can start: call-start, a speech turn or a status event
StartFor(CallSid) ==
    \/ \E To \in LoopTos : VoiceStarts(CallSid, To)
    \/ \E SpeechResult \in LoopSpeechResults : SpeechStarts(CallSid, SpeechResult)
    \/ \E ev \in LoopStatusEvents : StatusStarts(CallSid, ev)

\* a suspended task of CallSid can go on
ResumeFor(CallSid) ==
    \E id \in DOMAIN tasks :
        /\ tasks[id].CallSid = CallSid
        /\ \/ VoiceFindsBusiness(id) \/ VoiceCommits(id) \/ VoiceRefreshes(id)
           \/ VoiceLoadsPrompts(id) \/ SpeechFindsCall(id) \/ SpeechCommits(id)
           \/ SpeechFindsBusiness(id) \/ StatusFindsCall(id) \/ StatusCommits(id)

\* C22: while the chat-completion request of a speech turn for one CallSid
\* is in flight, a handler for another CallSid can start (where there is
\* room for a task), and a suspended handler of another CallSid whose
\* awaited operation is done can go on: no handler for one CallSid waits on
\* a handler for another.
C22_NoCrossCallBlocking ==
    \A id \in InFlight :
        \A B \in CallSids \ {tasks[id].CallSid} :
            /\ Cardinality(DOMAIN tasks) < MaxTasks => ENABLED StartFor(B)
            /\ (\E o \in DOMAIN tasks : tasks[o].CallSid = B /\ tasks[o].pc # "commit")
                  => ENABLED ResumeFor(B)

\* the step is a step of a handler for CallSid: a task of the CallSid
\* starts, goes on or ends, or a handler that awaits nothing runs for it
ActsFor(CallSid) ==
    \/ \E id \in DOMAIN tasks \cup DOMAIN tasks' :
          LET t == IF id \in DOMAIN tasks THEN tasks[id] ELSE tasks'[id]
          IN  /\ t.CallSid = CallSid
              /\ \/ id \notin DOMAIN tasks
                 \/ id \notin DOMAIN tasks'
                 \/ tasks'[id] # tasks[id]
    \/ tasks' = tasks /\ last' # last /\ last'.CallSid = CallSid

\* what the program holds for a CallSid: its conversation in
\* active_conversations (ai_handler with the history and the context,
\* transcript, collected_info) or none, and its rows of calls
HeldFor(CallSid) ==
    [conversation |-> IF CallSid \in DOMAIN active_conversations
                      THEN {active_conversations[CallSid]} ELSE {},
     rows |-> SelectSeq(calls, LAMBDA c : c.twilio_call_sid = CallSid)]

\* C23: under every interleaving of the handlers of two CallSids, a step of
\* a handler for one CallSid leaves the conversation of the other as it is
\* (history, transcript, collected_info and context), neither creates nor
\* deletes its entry of active_conversations, and leaves its rows of calls
\* as they are.
C23_NoCrossCallEffect ==
    [][\A A \in CallSids :
          ActsFor(A) => \A B \in CallSids \ {A} : HeldFor(B)' = HeldFor(B)]_vars

\* a speech turn of one call is suspended at the commit of its appointment
\* while the status event of another call is suspended at its commit
C23_Witness ==
    \E a, b \in DOMAIN tasks :
        /\ tasks[a].CallSid # tasks[b].CallSid
        /\ tasks[a].kind = "input" /\ tasks[a].pc = "commit"
        /\ tasks[b].kind = "status" /\ tasks[b].pc = "commit"
        /\ tasks[b].CallSid \in DOMAIN active_conversations
        /\ Len(active_conversations[tasks[b].CallSid].transcript) = 2

-----------------------------------------------------------------------------
(* C24-C30: the result of the model, the two histories, the fields of the row *)

\* C24: the action of every dict process_input returns to the speech-turn
\* handler is schedule_appointment, transfer_call or end_call, or there is
\* none (the key is absent or its value is None), where the request answered
\* and where it failed or was not made.
C24_ActionIsKnown ==
    (last.kind = "input" /\ DOMAIN last.ai # {})
        => Get(last.ai, "action", NoneVal) \in KnownActions \cup {NoneVal}

\* the step is a speech turn with text for a CallSid that has a conversation
SpokenTurn ==
    /\ last'.kind = "input"
    /\ last'.had_conversation
    /\ Truthy(last'.input)

\* C25: every speech turn with text on a live call appends the caller's
\* words and then the reply to the transcript and to the conversation
\* history of the model, one entry each and in this order, also where the
\* request failed or the credentials are absent.
C25_TurnAppendsToBoth ==
    [][SpokenTurn =>
          LET before == active_conversations[last'.CallSid]
              after == active_conversations'[last'.CallSid]
              reply == Str(Get(last'.ai, "response", NoneVal))
          IN  /\ after.transcript =
                    before.transcript
                      \o << "Caller: " \o last'.input, "AI: " \o reply >>
              /\ after.ai_handler.conversation_history =
                    before.ai_handler.conversation_history
                      \o << [role |-> "user", content |-> last'.input],
                            [role |-> "assistant",
                             content |-> Get(last'.ai, "response", NoneVal)] >>]_vars

\* the step is the commit of task id, a speech turn or a status event, which
\* writes the fields the task has set to the row of its call
CommitsRow(id) ==
    /\ tasks[id].kind \in {"input", "status"}
    /\ tasks[id].pc = "commit"
    /\ id \notin DOMAIN tasks'

\* the row a committing task writes to
RowOfTask(id) == CHOOSE c \in Range(calls) : c.id = tasks[id].call_id

\* the termination fields of a row have been written: the transcript, NULL
\* in a new row, is a text from then on
Terminated(c) == c.transcript # NoneVal

\* C26: over the life of a call the termination fields of its row (status,
\* duration, transcript, summary, sentiment) are written once, by the status
\* event, and the appointment fields (collected_info, action_taken,
\* action_details) at most once and before that: no status event writes to a
\* row whose termination fields are written, and no speech turn writes to
\* a row whose termination fields or appointment fields are written.
C26_FieldsWrittenOnce ==
    [][\A id \in DOMAIN tasks :
          CommitsRow(id) =>
              /\ ~Terminated(RowOfTask(id))
              /\ tasks[id].kind = "input"
                    => RowOfTask(id).action_taken = NoneVal]_vars

\* C27: while a call is live every key of its collected_info stays: a
\* schedule_appointment turn adds keys or overwrites values, and no speech
\* turn, empty turn or repeated call-start takes a key away; only the
\* status event, which deletes the conversation, ends this.
C27_CollectedKeysStay ==
    [][\A CallSid \in DOMAIN active_conversations \cap DOMAIN active_conversations' :
          DOMAIN active_conversations[CallSid].collected_info
              \subseteq DOMAIN active_conversations'[CallSid].collected_info]_vars

\* the step is a status event that deletes the conversation of its CallSid
Evicts ==
    /\ last'.kind = "status"
    /\ last'.CallSid \in DOMAIN active_conversations
    /\ last'.CallSid \notin DOMAIN active_conversations'

\* C28: when the status event deletes the conversation of a call, the
\* collected_info of the call's row equals the collected_info the
\* conversation holds.
C28_RowHasCollectedInfo ==
    [][Evicts =>
          LET conversation == active_conversations[last'.CallSid]
          IN  \A i \in DOMAIN calls' :
                  calls'[i].id = conversation.call_id
                      => calls'[i].collected_info = conversation.collected_info]_vars

\* the transcript holds a line of the caller
HasCallerLine(transcript) ==
    \E i \in DOMAIN transcript : StartsWith(transcript[i], "Caller:")

\* C29: a status event that finalizes the row of a call writes the sentiment
\* if and only if the transcript of the conversation holds a caller line;
\* with no caller line the sentiment of the row stays as it was, and status,
\* duration, transcript and summary are written all the same.
C29_SentimentOnlyWithCallerLine ==
    [][StatusReturned
          => LET conversation == active_conversations[last'.CallSid]
             IN  \A i \in RowsOf(last'.CallSid) :
                    /\ HasCallerLine(conversation.transcript)
                          => /\ calls'[i].sentiment \in {"positive", "neutral", "negative"}
                             /\ calls'[i].sentiment # calls[i].sentiment
                    /\ ~HasCallerLine(conversation.transcript)
                          => calls'[i].sentiment = calls[i].sentiment
                    /\ calls'[i].status = ExpectedStatus(last'.input)
                    /\ calls'[i].duration_seconds = ReportedSeconds
                    /\ calls'[i].transcript = JoinedByNewline(conversation.transcript)
                    /\ calls'[i].call_summary # NoneVal]_vars

\* C29's case: a call without a speech turn is finalized; its row has
\* status, duration, an empty transcript and the summary, and no sentiment
C29_Witness ==
    /\ last.kind = "status" /\ last.had_conversation /\ ~last.raised
    /\ api_key_set
    /\ \E i \in DOMAIN calls :
          /\ calls[i].status = "MISSED" /\ calls[i].transcript = ""
          /\ calls[i].duration_seconds = 0
          /\ calls[i].call_summary = "No conversation to summarize."
          /\ calls[i].sentiment = NoneVal

\* the other case: the transcript holds a caller line and the sentiment is
\* written
C29_WitnessCallerLine ==
    /\ last.kind = "status" /\ last.had_conversation /\ ~last.raised
    /\ \E i \in DOMAIN calls :
          /\ calls[i].transcript # NoneVal /\ StartsWith(calls[i].transcript, "Caller: hi")
          /\ calls[i].sentiment = "negative"

RECURSIVE ByPriorityThenInsertion(_)
\* the rows of a set by descending priority, rows of equal priority by
\* ascending id, the order of their insertion
ByPriorityThenInsertion(rows) ==
    IF rows = {} THEN << >>
    ELSE LET first == CHOOSE r \in rows :
                          \A q \in rows : q.priority < r.priority
                                          \/ (q.priority = r.priority /\ q.id >= r.id)
         IN  << first >> \o ByPriorityThenInsertion(rows \ {first})

\* C30: the prompts a matched call-start hands to the handler of the model
\* are the active prompts of the business, all of them and no other, by
\* descending priority, prompts of equal priority in the order of their
\* insertion.
C30_PromptOrder ==
    [][(last'.kind = "voice" /\ ~last'.raised /\ last'.input \in ConfiguredNumbers)
          => LET conversation == active_conversations'[last'.CallSid]
                 expected ==
                     ByPriorityThenInsertion(
                         {p \in Range(Prompts) :
                             p.business_id = conversation.business_id /\ p.is_active})
             IN  Get(conversation.ai_handler.business_context, "custom_prompts", << >>)
                    = [i \in DOMAIN expected |-> expected[i].id]]_vars


-----------------------------------------------------------------------------
(* C31-C38: timeouts, the rows of a call, overlapping handlers, directives *)

\* the speech turns that wait for the answer of their chat-completion request
TurnsInRequest ==
    {id \in DOMAIN tasks : tasks[id].kind = "input" /\ tasks[id].pc = "process_input"}

\* C31: a speech turn whose request of the model is under way eventually
\* leaves the request (with the answer, or cut off and answered with the
\* fallback), under the scheduling the server guarantees.
C31_TurnLeavesRequest ==
    \A id \in 1..MaxTasks : (id \in TurnsInRequest) ~> (id \notin TurnsInRequest)


\* C32: no two rows of calls carry the same provider call identifier,
\* whatever webhook events came, repeated call-starts included.
C32_OneRowPerCallSid ==
    \A i, j \in 1..Len(calls) :
        calls[i].twilio_call_sid = calls[j].twilio_call_sid => i = j


\* C33: when a status event that found the conversation state of its call has
\* completed, no row with that provider call identifier is IN_PROGRESS.
C33_NoRowLeftInProgress ==
    [][StatusReturned =>
          \A i \in DOMAIN calls' :
              calls'[i].twilio_call_sid = last'.CallSid
                  => calls'[i].status # "IN_PROGRESS"]_vars


\* the status handlers that end in the step: each of them got a conversation
\* from the registry when it began
StatusTasksEnding ==
    {id \in DOMAIN tasks : tasks[id].kind = "status" /\ id \notin DOMAIN tasks'}

\* C34: a status handler that read the registry and was suspended at its
\* database awaits ends without raising and with no entry of its call
\* identifier in the registry, also when another status handler of the same
\* call identifier ran in between.
C34_OverlappingStatusSafe ==
    [][\A id \in StatusTasksEnding :
           /\ ~last'.raised
           /\ tasks[id].CallSid \notin DOMAIN active_conversations']_vars


\* C35: when a status handler evicts the conversation of a call, the
\* transcript stored in the row of the call is the text of every line the
\* conversation has at that moment, also when a speech turn appended lines
\* while the status handler was suspended at a database await.
C35_StoredTranscriptComplete ==
    [][\A id \in StatusTasksEnding :
           ~last'.raised
               => \E i \in DOMAIN calls' :
                     /\ calls'[i].id = ConversationOf(id).call_id
                     /\ calls'[i].transcript =
                            Join("\n", ConversationOf(id).transcript)]_vars


\* the step is the commit of a speech turn
SpeechTurnCommits == \E id \in DOMAIN tasks : tasks[id].kind = "input" /\ CommitsRow(id)

\* C36: a row whose status event has completed (its termination fields are
\* written) is left as it is by every speech turn, also by a
\* schedule_appointment turn that was suspended at its database read while the
\* status event ran.
C36_NoSpeechWriteAfterStatus ==
    [][SpeechTurnCommits =>
          \A i \in DOMAIN calls : Terminated(calls[i]) => calls'[i] = calls[i]]_vars


\* a transcript of caller lines and reply lines in turns: even length, a
\* "Caller: " line at every odd place and an "AI: " line after it
Alternates(transcript) ==
    /\ Len(transcript) % 2 = 0
    /\ \A i \in DOMAIN transcript :
          IF i % 2 = 1 THEN StartsWith(transcript[i], "Caller: ")
                       ELSE StartsWith(transcript[i], "AI: ")

\* C37: between the handlers (no speech turn is in progress) the transcript
\* of every call in the registry has even length and alternates a caller
\* line and a reply line, beginning with a caller line.
C37_TranscriptAlternates ==
    \A c \in DOMAIN active_conversations : Alternates(active_conversations[c].transcript)


\* the directives a document carries, out of gather, hang-up and transfer
Directives(doc) == {v \in {"Gather", "Hangup", "Dial"} : HasVerb(doc, v)}

\* how many verbs of the document are directives
DirectiveVerbs(doc) ==
    Cardinality({i \in 1..Len(doc) : doc[i].verb \in {"Gather", "Hangup", "Dial"}})

\* a call-start or a speech turn has returned its document
VoiceResponseReturned == last.kind \in {"voice", "input"} /\ ~last.raised

\* C38: every document a call-start or a speech turn returns carries exactly
\* one directive out of gather, hang-up and transfer: with the hang-up there
\* is no gather and no redirect, with the gather no hang-up and no dial, with
\* the transfer no gather and no hang-up.
C38_OneDirective ==
    VoiceResponseReturned =>
        /\ Cardinality(Directives(last.body)) = 1
        /\ DirectiveVerbs(last.body) = 1
        /\ HasVerb(last.body, "Hangup") => ~HasVerb(last.body, "Redirect")

\* C38's case: a speech turn on which the model ended the call has returned;
\* create_response got end_call with gather_input left at its default, and
\* the document hangs up without a gather
C38_Witness ==
    /\ last.kind = "input" /\ ~last.raised
    /\ Get(last.ai, "action", NoneVal) = "end_call"
    /\ HasVerb(last.body, "Hangup")
    /\ ~HasVerb(last.body, "Gather")

====
